---- MODULE Spec2Model ----
(***************************************************************************)
(* Verification model of mchat: the streaming completion engine            *)
(* (llm_client.py), the tool executor (tools.py), the task coordinator     *)
(* (tasks.py), the session summarization job (session.py) and the turn     *)
(* of Chat (chat.py).                                                      *)
(*                                                                         *)
(* Text is modelled as a sequence of tokens, so that concatenation (+=) is *)
(* \o and the empty string is << >>.  Python's None is the value None.     *)
(* Python list indices are 0-based; TLA+ sequences are 1-based, so the     *)
(* element with Python index i is at position i + 1.                       *)
(***************************************************************************)
EXTENDS Integers, Sequences, FiniteSets, TLC

None == "<None>"

\* ------------------------------------------------------------------------
\* Bounds of the model
\* ------------------------------------------------------------------------
MaxFrags == 3        \* fragments in one input of _merge_tool_calls
MaxIndex == 1        \* largest tool-call index a fragment carries
MaxCalls == 3        \* tool calls in one input of exec_tool_calls
MaxTasks == 2        \* tasks created through one TaskManager
RoundCap == 9        \* requests after which the model stops following a turn
MaxMsgs  == 3        \* messages added to the histories in one run
MaxWindow == 1       \* largest max_history_turns configured
MaxLines == 3        \* lines in one response of the completion service
MaxRounds == 2       \* requests of a turn the model follows
MaxSessions == 3     \* sessions created in one run
MaxTurns == 2        \* turns of one run of the prompt loop
MaxJobSessions == 2  \* sessions of a run with background jobs in flight

\* ------------------------------------------------------------------------
\* State
\* ------------------------------------------------------------------------
VARIABLES
    \* harness of the pure function _merge_tool_calls
    mergeIn,        \* the fragment list, in a first arrival order
    mergeIn2,       \* the same fragments in a second arrival order
    mergeOut,       \* _merge_tool_calls(mergeIn), once called
    mergeOut2,      \* _merge_tool_calls(mergeIn2), once called
    mergePc,        \* "ready" | "merged"
    \* exec_tool_calls (tools.py)
    toolCalls,      \* the tool_calls argument
    toolState,      \* per call: "created" | "awaiting" | "done" | "raised"
    toolResults,    \* per call: the message _execute_single_tool returned
    toolOutcome,    \* per call: what fn(**args) did: "not_called" | a text | "raised"
    completed,      \* positions of the calls in the order they completed
    execPc,         \* "idle" | "gathering" | "returned" | "raised"
    execResult,     \* the list exec_tool_calls returned
    \* TaskManager (tasks.py)
    tasks,          \* every asyncio task created so far, by creation number
    _tasks,         \* TaskManager._tasks: name -> set of registered tasks
    callbacks,      \* finished tasks whose done callback has not run yet
    nonExclusive,   \* names that were ever scheduled with exclusive=False
    callbackErrors, \* number of done callbacks that raised
    \* LLMClient.stream_completion (llm_client.py)
    streamPc,       \* position in stream_completion
    messages,       \* body["messages"], the running message list
    requestsSent,   \* POST /chat/completions requests issued in this turn
    requestBody,    \* body["messages"] as sent with the current request
    response,       \* the lines of the response to the current request
    stream,         \* lines of the current response not yet delivered
    tool_calls,     \* fragments accumulated in this round
    finished,       \* the local variable finished
    tool_calls_complete, \* result of _merge_tool_calls in this round
    events,         \* StreamEvents yielded to the caller in this turn
    \* SessionManager (session.py)
    session,        \* SessionManager._current_session
    repo,           \* the rows of the sessions table, by id
    max_history_turns, \* Config.max_history_turns
    nextMsg,        \* number of the next message added to a history
    jobs,           \* create_summary calls suspended in `await completion`
    lastReturn,     \* how the last create_summary call ended
    session_meta,   \* SessionManager._session_meta.latest_session_id
    meta_row,       \* latest_session_id of the row of the meta table
    next_id,        \* the doc id TinyDB gives the next inserted session
    cmdResult,      \* the last session command: name, argument, outcome
    \* Chat._chat_completion_stream (chat.py)
    serverResponse, \* the lines the service answers this turn's request with
    chatPc,         \* "idle" | "stream" | "done"
    hm_messages,    \* self._hm.history.messages
    historyBefore,  \* hm_messages when the turn started
    prompt,         \* the user input of the turn
    chatData,       \* lines of the response not yet delivered by aiter_bytes
    chatThinking,   \* the local variable thinking
    chatContent,    \* the local variable content
    chatRequests,   \* POST /chat/completions requests issued by the turn
    chatFailed,     \* the turn's request raised (timeout, connection error)
    chatMessages,   \* the local variable messages: the request context
    hm_system_prompt, \* self._hm.history.system_prompt
    hm_summary,     \* self._hm.history.summary
    _last_summarized_index, \* Chat._last_summarized_index
    console,        \* what self._console.print has shown the user
    _summary_task,  \* Chat._summary_task, the task running _summarize
    _history_task,  \* Chat._history_task, _set_interval(self._hm.save, 300)
    historyFile,    \* the content of history.json
    quitPc,         \* position in Chat._quit
    exitCode        \* the code the process exited with

mergeVars == <<mergeIn, mergeIn2, mergeOut, mergeOut2, mergePc>>
toolVars  == <<toolCalls, toolState, toolResults, toolOutcome, completed,
               execPc, execResult>>

taskVars  == <<tasks, _tasks, callbacks, nonExclusive, callbackErrors>>
streamVars == <<streamPc, messages, requestsSent, requestBody, response, stream, tool_calls, finished,
                tool_calls_complete, events>>
storeVars == <<session_meta, meta_row, next_id, cmdResult>>
sessionVars == <<session, repo, max_history_turns, nextMsg, jobs, lastReturn,
                 session_meta, meta_row, next_id, cmdResult>>

chatCtxVars == <<hm_system_prompt, hm_summary, _last_summarized_index>>
chatBgVars == <<_summary_task, _history_task, historyFile, quitPc, exitCode>>
chatVars == <<serverResponse, chatPc, hm_messages, historyBefore, prompt,
              chatData, chatThinking, chatContent, chatRequests, chatFailed,
              chatMessages, hm_system_prompt, hm_summary, _last_summarized_index,
              console, _summary_task, _history_task, historyFile, quitPc, exitCode>>

vars == <<mergeIn, mergeIn2, mergeOut, mergeOut2, mergePc,
          toolCalls, toolState, toolResults, toolOutcome, completed,
          execPc, execResult,
          tasks, _tasks, callbacks, nonExclusive, callbackErrors,
          streamPc, messages, requestsSent, requestBody, response, stream,
          tool_calls, finished,
          tool_calls_complete, events,
          session, repo, max_history_turns, nextMsg, jobs, lastReturn,
          session_meta, meta_row, next_id, cmdResult,
          serverResponse, chatPc, hm_messages, historyBefore, prompt,
          chatData, chatThinking, chatContent, chatRequests, chatFailed,
          chatMessages, hm_system_prompt, hm_summary, _last_summarized_index,
          console, _summary_task, _history_task, historyFile, quitPc, exitCode>>

\* What the operations of one component leave alone.
notMerge   == <<toolVars, taskVars, streamVars, sessionVars, chatVars>>
notTool    == <<mergeVars, taskVars, streamVars, sessionVars, chatVars>>
notTask    == <<mergeVars, toolVars, streamVars, sessionVars, chatVars>>
notStream  == <<mergeVars, taskVars, sessionVars, chatVars>>
notSession == <<mergeVars, toolVars, taskVars, streamVars, chatVars>>
notChat    == <<mergeVars, toolVars, taskVars, streamVars, sessionVars>>

\* ------------------------------------------------------------------------
\* Tool-call fragments (llm_client.py, _merge_tool_calls)
\* ------------------------------------------------------------------------
\* A raw fragment of a streamed tool call: tool_call["index"],
\* tool_call.get("id"), tool_call["function"].get("name"),
\* tool_call["function"].get("arguments").  An absent key and an empty value
\* are both falsy in the code; id is None or a string, name and arguments
\* are token sequences.
Fragment(i, id, nm, args) ==
    [index |-> i, id |-> id, name |-> nm, arguments |-> args]

\* The fragments of the first call come in every shape; those of a later
\* call carry an id or a name.
FragmentSet ==
    { Fragment(0, id, <<>>, <<>>) : id \in {"c1", "c2", ""} }
    \cup { Fragment(0, None, nm, <<>>) : nm \in {<<"f">>, <<"g">>} }
    \cup { Fragment(0, None, <<>>, a) : a \in {<<"{">>, <<"}">>} }
    \cup { Fragment(0, "c1", <<"f">>, <<"{", "}">>) }
    \cup { Fragment(i, "c3", <<>>, <<>>) : i \in 1..MaxIndex }
    \cup { Fragment(i, None, <<"h">>, <<>>) : i \in 1..MaxIndex }

\* Python truthiness of tool_call.get("id")
Truthy(id) == id # None /\ id # ""

\* The placeholder appended for a slot that has not been seen yet.
EmptySlot == [id |-> None, type |-> "function", name |-> <<>>, arguments |-> <<>>]

RECURSIVE Pad(_, _)
\* while idx >= len(merged): merged.append(placeholder)
Pad(merged, idx) ==
    IF idx >= Len(merged) THEN Pad(Append(merged, EmptySlot), idx) ELSE merged

\* MergeOne with the name assigned (=) where the code concatenates (+=).
MergeOneNameAssigned(merged, tc) ==
    LET padded  == Pad(merged, tc.index)
        current == padded[tc.index + 1]
        withId  == IF Truthy(tc.id) THEN [current EXCEPT !.id = tc.id] ELSE current
        withNm  == IF tc.name # <<>>
                   THEN [withId EXCEPT !.name = tc.name] ELSE withId
        withArg == IF tc.arguments # <<>>
                   THEN [withNm EXCEPT !.arguments = @ \o tc.arguments] ELSE withNm
    IN  [padded EXCEPT ![tc.index + 1] = withArg]

\* The body of the for loop of _merge_tool_calls for one fragment.
MergeOne(merged, tc) ==
    LET padded  == Pad(merged, tc.index)
        current == padded[tc.index + 1]
        withId  == IF Truthy(tc.id) THEN [current EXCEPT !.id = tc.id] ELSE current
        withNm  == IF tc.name # <<>>
                   THEN [withId EXCEPT !.name = @ \o tc.name] ELSE withId
        withArg == IF tc.arguments # <<>>
                   THEN [withNm EXCEPT !.arguments = @ \o tc.arguments] ELSE withNm
    IN  [padded EXCEPT ![tc.index + 1] = withArg]

RECURSIVE MergeFrom(_, _)
MergeFrom(merged, tcs) ==
    IF tcs = <<>> THEN merged ELSE MergeFrom(MergeOne(merged, Head(tcs)), Tail(tcs))

\* LLMClient._merge_tool_calls: every slot is returned, with or without id.
_merge_tool_calls(fragments) == MergeFrom(<<>>, fragments)

\* ------------------------------------------------------------------------
\* Harness: _merge_tool_calls applied to two arrival orders
\* ------------------------------------------------------------------------
FragmentLists == UNION { [1..n -> FragmentSet] : n \in 0..MaxFrags }

Orders(n) == { p \in [1..n -> 1..n] : \A i, j \in 1..n : i # j => p[i] # p[j] }

Reorder(s, p) == [k \in 1..Len(s) |-> s[p[k]]]

MergeCall ==
    /\ mergePc = "ready"
    /\ mergeOut' = _merge_tool_calls(mergeIn)
    /\ mergeOut2' = _merge_tool_calls(mergeIn2)
    /\ mergePc' = "merged"
    /\ UNCHANGED <<mergeIn, mergeIn2>>
    /\ UNCHANGED notMerge

\* ------------------------------------------------------------------------
\* Tool executor (tools.py)
\* ------------------------------------------------------------------------
\* Names are character sequences: "ws" stands for web_search, "rf" for
\* read_file.  _TOOLS is the registry of known tools.
web_search == <<"w", "s">>
read_file  == <<"r", "f">>
_TOOLS     == {web_search, read_file}

\* json.loads(args_json) followed by the binding of fn(**args): the text
\* {q} is an object holding the tool's required argument, {} an object
\* without it, 1 a JSON number; any other text does not parse.
json_loads(text) ==
    CASE text = <<"{", "q", "}">> -> "kwargs"
      [] text = <<"{", "}">>      -> "empty_object"
      [] text = <<"1">>           -> "number"
      [] OTHER                    -> "JSONDecodeError"

Raised == [kind |-> "raise", value |-> <<>>]
Returned(text) == [kind |-> "return", value |-> text]

\* What `await fn(**args)` can do.  fn(**args) raises TypeError when args
\* is not a mapping or lacks the required parameter.  web_search and
\* extract_web_page let exceptions out; read_file and write_file catch
\* them and return a text of their own.
CallOutcomes(tc) ==
    IF json_loads(tc.arguments) # "kwargs" THEN {Raised}
    ELSE IF tc.name = web_search THEN {Returned(<<"results">>), Raised}
    ELSE {Returned(<<"content">>), Returned(<<"Error:", "File", "not", "found">>)}

ToolMessage(tc, text) ==
    [role |-> "tool", tool_call_id |-> tc.id, content |-> text]

\* _execute_single_tool without the `except Exception` clause.
_execute_single_tool_uncaught(tc, outcome) ==
    IF tc.type # "function"
    THEN Returned(ToolMessage(tc, <<"Error:", "Invalid", "tool", "call", "type">>))
    ELSE IF tc.name \notin _TOOLS
    THEN Returned(ToolMessage(tc, <<"Error:", "Unknown", "function">>))
    ELSE IF json_loads(tc.arguments) = "JSONDecodeError"
    THEN Returned(ToolMessage(tc, <<"Error:", "Invalid", "JSON", "arguments">>))
    ELSE IF outcome.kind = "raise"
    THEN Raised
    ELSE Returned(ToolMessage(tc, outcome.value))

\* _execute_single_tool: outcome is what `await fn(**args)` did, when the
\* call got that far.
_execute_single_tool(tc, outcome) ==
    IF tc.type # "function"
    THEN Returned(ToolMessage(tc, <<"Error:", "Invalid", "tool", "call", "type">>))
    ELSE IF tc.name \notin _TOOLS
    THEN Returned(ToolMessage(tc, <<"Error:", "Unknown", "function">>))
    ELSE IF json_loads(tc.arguments) = "JSONDecodeError"
    THEN Returned(ToolMessage(tc, <<"Error:", "Invalid", "JSON", "arguments">>))
    ELSE IF outcome.kind = "raise"
    THEN Returned(ToolMessage(tc, <<"Error:", "exception">>))
    ELSE Returned(ToolMessage(tc, outcome.value))

\* The call returns before reaching `await fn(**args)`.
ReturnsEarly(tc) ==
    \/ tc.type # "function"
    \/ tc.name \notin _TOOLS
    \/ json_loads(tc.arguments) = "JSONDecodeError"

\* asyncio.gather with the results in completion order.
gather_completion_order(results, order) ==
    [k \in 1..Len(order) |-> results[order[k]]]

\* asyncio.gather(*tasks): the results in the order of the awaitables.
gather(results, order) ==
    [k \in 1..Len(results) |-> results[k]]

NoMessage == [role |-> "none", tool_call_id |-> None, content |-> <<>>]

\* exec_tool_calls(tool_calls) is entered: one coroutine per call, handed to
\* asyncio.gather.
ExecStart(calls) ==
    /\ toolCalls' = calls
    /\ toolState' = [k \in 1..Len(calls) |-> "created"]
    /\ toolResults' = [k \in 1..Len(calls) |-> NoMessage]
    /\ toolOutcome' = [k \in 1..Len(calls) |-> "not_called"]
    /\ completed' = <<>>
    /\ execPc' = "gathering"
    /\ execResult' = <<>>

Settle(i, settled, outcome) ==
    /\ toolState' = [toolState EXCEPT ![i] = IF settled.kind = "raise" THEN "raised" ELSE "done"]
    /\ toolResults' = [toolResults EXCEPT ![i] = IF settled.kind = "raise" THEN NoMessage ELSE settled.value]
    /\ toolOutcome' = [toolOutcome EXCEPT ![i] = outcome]
    /\ completed' = Append(completed, i)

\* The calls awaited one after the other: call i starts when the calls
\* before it have completed.
ToolBeginSequential(i) ==
    /\ execPc = "gathering"
    /\ toolState[i] = "created"
    /\ \A j \in 1..(i - 1) : toolState[j] \in {"done", "raised"}
    /\ IF ReturnsEarly(toolCalls[i])
       THEN Settle(i, _execute_single_tool(toolCalls[i], Raised), "not_called")
       ELSE /\ toolState' = [toolState EXCEPT ![i] = "awaiting"]
            /\ UNCHANGED <<toolResults, toolOutcome, completed>>
    /\ UNCHANGED <<toolCalls, execPc, execResult>>
    /\ UNCHANGED notTool

\* The event loop starts the tasks in the order gather created them; a task
\* runs up to `await fn(**args)` or to an early return.
ToolBegin(i) ==
    /\ execPc = "gathering"
    /\ toolState[i] = "created"
    /\ \A j \in 1..(i - 1) : toolState[j] # "created"
    /\ IF ReturnsEarly(toolCalls[i])
       THEN Settle(i, _execute_single_tool(toolCalls[i], Raised), "not_called")
       ELSE /\ toolState' = [toolState EXCEPT ![i] = "awaiting"]
            /\ UNCHANGED <<toolResults, toolOutcome, completed>>
    /\ UNCHANGED <<toolCalls, execPc, execResult>>
    /\ UNCHANGED notTool

\* `await fn(**args)` of call i finishes, in any order among the calls.
ToolEnd(i) ==
    /\ execPc = "gathering"
    /\ toolState[i] = "awaiting"
    /\ \E outcome \in CallOutcomes(toolCalls[i]) :
          Settle(i, _execute_single_tool(toolCalls[i], outcome),
                 IF outcome.kind = "raise" THEN "raised" ELSE outcome.value)
    /\ UNCHANGED <<toolCalls, execPc, execResult>>
    /\ UNCHANGED notTool

\* `results = await asyncio.gather(*tasks)`: gather raises the exception of
\* a task that raised, and returns once every task has returned.
GatherDone ==
    /\ execPc = "gathering"
    /\ \/ /\ \E i \in 1..Len(toolCalls) : toolState[i] = "raised"
          /\ execPc' = "raised"
          /\ UNCHANGED execResult
       \/ /\ \A i \in 1..Len(toolCalls) : toolState[i] = "done"
          /\ execPc' = "returned"
          /\ execResult' = gather(toolResults, completed)
    /\ UNCHANGED <<toolCalls, toolState, toolResults, toolOutcome, completed>>
    /\ UNCHANGED notTool

\* ------------------------------------------------------------------------
\* Stream lines and LLMClient._process_chunk (llm_client.py)
\* ------------------------------------------------------------------------
\* A line of the response is its prefix ("error: ", "data: ", anything else,
\* or nothing for the blank line) and its payload.  A payload is the
\* sentinel [DONE], a JSON object, or text that does not parse.  An error
\* payload that parses carries "message"; a data payload that parses
\* carries "choices", each choice a finish_reason and a delta.
NoDelta == [present |-> FALSE, tool_calls |-> <<>>, reasoning_content |-> <<>>,
            content |-> <<>>]
Delta(tcs, thinking, content) ==
    [present |-> TRUE, tool_calls |-> tcs, reasoning_content |-> thinking,
     content |-> content]
Choice(reason, delta) == [finish_reason |-> reason, delta |-> delta]

BlankLine        == [prefix |-> "", form |-> "empty", message |-> <<>>, choices |-> <<>>]
CommentLine      == [prefix |-> ": ", form |-> "garbage", message |-> <<>>, choices |-> <<>>]
ErrorLine(m)     == [prefix |-> "error: ", form |-> "object", message |-> m, choices |-> <<>>]
ErrorTextLine    == [prefix |-> "error: ", form |-> "garbage", message |-> <<>>, choices |-> <<>>]
DoneLine         == [prefix |-> "data: ", form |-> "[DONE]", message |-> <<>>, choices |-> <<>>]
GarbageLine      == [prefix |-> "data: ", form |-> "garbage", message |-> <<>>, choices |-> <<>>]
NoChoicesLine    == [prefix |-> "data: ", form |-> "object", message |-> <<>>, choices |-> <<>>]
DataLine(choice) == [prefix |-> "data: ", form |-> "object", message |-> <<>>,
                     choices |-> <<choice>>]

ChunkResult == [thinking |-> <<>>, content |-> <<>>, error |-> <<>>,
                tool_calls |-> <<>>, is_done |-> FALSE]

\* The text of a line whose payload is not JSON, as `error = line` keeps it.
LineText(line) == <<line.prefix, line.form>>

\* _process_chunk reporting a payload that is not JSON as an error.
_process_chunk_json_error(line) ==
    IF line.prefix = "" /\ line.form = "empty" THEN ChunkResult
    ELSE IF line.prefix = "error: "
    THEN [ChunkResult EXCEPT !.error =
              IF line.form = "object" THEN line.message ELSE LineText(line)]
    ELSE IF line.prefix # "data: " THEN ChunkResult
    ELSE IF line.form = "[DONE]" THEN [ChunkResult EXCEPT !.is_done = TRUE]
    ELSE IF line.form # "object" THEN [ChunkResult EXCEPT !.error = LineText(line)]
    ELSE IF line.choices = <<>> THEN ChunkResult
    ELSE LET choice == line.choices[1]
             done   == choice.finish_reason = "stop"
             delta  == choice.delta
         IN  IF ~delta.present THEN [ChunkResult EXCEPT !.is_done = done]
             ELSE [thinking   |-> delta.reasoning_content,
                   content    |-> delta.content,
                   error      |-> <<>>,
                   tool_calls |-> delta.tool_calls,
                   is_done    |-> done]

\* LLMClient._process_chunk(line)
_process_chunk(line) ==
    IF line.prefix = "" /\ line.form = "empty" THEN ChunkResult
    ELSE IF line.prefix = "error: "
    THEN [ChunkResult EXCEPT !.error =
              IF line.form = "object" THEN line.message ELSE LineText(line)]
    ELSE IF line.prefix # "data: " THEN ChunkResult
    ELSE IF line.form = "[DONE]" THEN [ChunkResult EXCEPT !.is_done = TRUE]
    ELSE IF line.form # "object" THEN ChunkResult
    ELSE IF line.choices = <<>> THEN ChunkResult
    ELSE LET choice == line.choices[1]
             done   == choice.finish_reason = "stop"
             delta  == choice.delta
         IN  IF ~delta.present THEN [ChunkResult EXCEPT !.is_done = done]
             ELSE [thinking   |-> delta.reasoning_content,
                   content    |-> delta.content,
                   error      |-> <<>>,
                   tool_calls |-> delta.tool_calls,
                   is_done    |-> done]

\* ------------------------------------------------------------------------
\* LLMClient.stream_completion (llm_client.py)
\* ------------------------------------------------------------------------
StreamEvent(type, data) == [type |-> type, data |-> data]

NoContent == <<None>>       \* "content": None

AssistantToolCalls(calls) ==
    [role |-> "assistant", content |-> NoContent, tool_calls |-> calls]

\* json.dumps(tool_call), the payload of a tool_call event
json_dumps(tc) == <<"json", tc>>

\* The top of `while True`: client.stream("POST", ...) sends the request body
\* and the server answers with one of the responses.
SendRequest(responses, cap) ==
    /\ streamPc = "send"
    /\ requestsSent < cap
    /\ requestsSent' = requestsSent + 1
    /\ requestBody' = messages
    /\ response' \in responses
    /\ stream' = response'
    /\ tool_calls' = <<>>
    /\ finished' = FALSE
    /\ streamPc' = "read"
    /\ UNCHANGED <<messages, tool_calls_complete, events>>
    /\ UNCHANGED toolVars
    /\ UNCHANGED notStream

\* The content deltas the events carry, concatenated.
RECURSIVE RoundContent(_)
RoundContent(evs) ==
    IF evs = <<>> THEN <<>>
    ELSE (IF Head(evs).type = "content" THEN Head(evs).data ELSE <<>>)
             \o RoundContent(Tail(evs))

\* ReadLine with content events carrying the content accumulated so far in
\* the round instead of the delta of the line.
ReadLineCumulative ==
    /\ streamPc = "read"
    /\ stream # <<>>
    /\ stream' = Tail(stream)
    /\ LET result == _process_chunk(Head(stream))
       IN  IF result.error # <<>>
           THEN /\ events' = Append(events, StreamEvent("error", result.error))
                /\ finished' = TRUE
                /\ streamPc' = "merge"
                /\ UNCHANGED tool_calls
           ELSE /\ events' = events
                       \o (IF result.thinking # <<>>
                           THEN <<StreamEvent("thinking", result.thinking)>> ELSE <<>>)
                       \o (IF result.content # <<>>
                           THEN <<StreamEvent("content",
                                 RoundContent(events) \o result.content)>>
                           ELSE <<>>)
                /\ tool_calls' = tool_calls \o result.tool_calls
                /\ finished' = (finished \/ result.is_done)
                /\ streamPc' = IF result.is_done THEN "merge" ELSE "read"
    /\ UNCHANGED <<messages, requestsSent, requestBody, response, tool_calls_complete>>
    /\ UNCHANGED toolVars
    /\ UNCHANGED notStream

\* One iteration of `async for line in response.aiter_lines()`.
ReadLine ==
    /\ streamPc = "read"
    /\ stream # <<>>
    /\ stream' = Tail(stream)
    /\ LET result == _process_chunk(Head(stream))
       IN  IF result.error # <<>>
           THEN /\ events' = Append(events, StreamEvent("error", result.error))
                /\ finished' = TRUE
                /\ streamPc' = "merge"
                /\ UNCHANGED tool_calls
           ELSE /\ events' = events
                       \o (IF result.thinking # <<>>
                           THEN <<StreamEvent("thinking", result.thinking)>> ELSE <<>>)
                       \o (IF result.content # <<>>
                           THEN <<StreamEvent("content", result.content)>> ELSE <<>>)
                /\ tool_calls' = tool_calls \o result.tool_calls
                /\ finished' = (finished \/ result.is_done)
                /\ streamPc' = IF result.is_done THEN "merge" ELSE "read"
    /\ UNCHANGED <<messages, requestsSent, requestBody, response, tool_calls_complete>>
    /\ UNCHANGED toolVars
    /\ UNCHANGED notStream

\* aiter_lines() is exhausted: the `async for` ends without a break.
EndOfStream ==
    /\ streamPc = "read"
    /\ stream = <<>>
    /\ streamPc' = "merge"
    /\ UNCHANGED <<messages, requestsSent, requestBody, response, stream, tool_calls, finished,
                   tool_calls_complete, events>>
    /\ UNCHANGED toolVars
    /\ UNCHANGED notStream

\* Lines 88-98 and 107-108: merge the fragments; with tool calls, append the
\* assistant message and yield one tool_call event per call; without, return
\* when finished and otherwise go round the loop again.
PostStream ==
    /\ streamPc = "merge"
    /\ LET complete == _merge_tool_calls(tool_calls)
       IN  /\ tool_calls_complete' = complete
           /\ IF complete # <<>>
              THEN /\ messages' = Append(messages, AssistantToolCalls(complete))
                   /\ events' = events \o
                          [k \in 1..Len(complete) |->
                              StreamEvent("tool_call", json_dumps(complete[k]))]
                   /\ streamPc' = "call_tools"
              ELSE /\ streamPc' = IF finished THEN "returned" ELSE "send"
                   /\ UNCHANGED <<messages, events>>
    /\ UNCHANGED <<requestsSent, requestBody, response, stream, tool_calls, finished>>
    /\ UNCHANGED toolVars
    /\ UNCHANGED notStream

\* Line 99: `await exec_tool_calls(tool_calls_complete)` is entered.
CallTools ==
    /\ streamPc = "call_tools"
    /\ execPc = "idle"
    /\ ExecStart(tool_calls_complete)
    /\ streamPc' = "exec"
    /\ UNCHANGED <<messages, requestsSent, requestBody, response, stream, tool_calls, finished,
                   tool_calls_complete, events>>
    /\ UNCHANGED notStream

\* Lines 99-103: exec_tool_calls is back; yield the tool_complete event.  An
\* exception out of it is re-raised as RuntimeError by the except clause.
ToolsReturned ==
    /\ streamPc = "exec"
    /\ execPc \in {"returned", "raised"}
    /\ IF execPc = "raised"
       THEN /\ streamPc' = "raised"
            /\ UNCHANGED events
       ELSE /\ streamPc' = "extend"
            /\ events' = Append(events,
                    StreamEvent("tool_complete", <<Len(tool_calls_complete), "tool(s) executed">>))
    /\ execPc' = "idle"
    /\ UNCHANGED <<toolCalls, toolState, toolResults, toolOutcome, completed, execResult>>
    /\ UNCHANGED <<messages, requestsSent, requestBody, response, stream, tool_calls, finished,
                   tool_calls_complete>>
    /\ UNCHANGED notStream

\* stream_completion without line 104: the tool messages are not added.
ExtendMessagesSkipped ==
    /\ streamPc = "extend"
    /\ messages' = messages
    /\ streamPc' = "send"
    /\ UNCHANGED <<requestsSent, requestBody, response, stream, tool_calls, finished,
                   tool_calls_complete, events>>
    /\ UNCHANGED toolVars
    /\ UNCHANGED notStream

\* Lines 104-108: body["messages"].extend(tool_messages); tool_calls_complete
\* is not empty here, so the loop goes round again whatever finished is.
ExtendMessages ==
    /\ streamPc = "extend"
    /\ messages' = messages \o execResult
    /\ streamPc' = "send"
    /\ UNCHANGED <<requestsSent, requestBody, response, stream, tool_calls, finished,
                   tool_calls_complete, events>>
    /\ UNCHANGED toolVars
    /\ UNCHANGED notStream

\* stream_completion(model, messages) is called with the request context.
StreamInit ==
    /\ streamPc = "send"
    /\ messages = <<[role |-> "user", content |-> <<"hi">>]>>
    /\ requestsSent = 0 /\ requestBody = <<>> /\ response = <<>> /\ stream = <<>>
    /\ tool_calls = <<>> /\ finished = FALSE
    /\ tool_calls_complete = <<>> /\ events = <<>>

\* ------------------------------------------------------------------------
\* Task coordinator (tasks.py)
\* ------------------------------------------------------------------------
\* fn.__name__ of the jobs handed to create_task.
TaskNames == {"create_summary", "flush"}

\* A task is "pending" until it finishes; t.cancel() on a pending task makes
\* it "cancelling": CancelledError is thrown into it when it next runs.  An
\* interval task alternates between running fn ("job") and asyncio.sleep
\* ("sleep"); a one-shot task only runs fn.
NewTask(name, interval, exclusive) ==
    [name |-> name, interval |-> interval, exclusive |-> exclusive,
     state |-> "pending", phase |-> "job", result |-> "none"]

\* t.cancel() for every task of a set.
CancelEach(ts, set) ==
    [t \in DOMAIN ts |->
        IF t \in set /\ ts[t].state = "pending"
        THEN [ts[t] EXCEPT !.state = "cancelling"] ELSE ts[t]]

\* create_task without the `if exclusive` block.
create_task_keeping_prior(name, interval, exclusive) ==
    /\ Len(tasks) < MaxTasks
    /\ tasks' = Append(tasks, NewTask(name, interval, exclusive))
    /\ _tasks' = [_tasks EXCEPT ![name] = @ \cup {Len(tasks) + 1}]
    /\ nonExclusive' = IF exclusive THEN nonExclusive ELSE nonExclusive \cup {name}
    /\ UNCHANGED <<callbacks, callbackErrors>>
    /\ UNCHANGED notTask

\* TaskManager.create_task(fn, interval, exclusive).  A name that is not a
\* key of the defaultdict holds no task, as a name mapped to the empty set.
create_task(name, interval, exclusive) ==
    /\ Len(tasks) < MaxTasks
    /\ LET cancelled == IF exclusive THEN CancelEach(tasks, _tasks[name]) ELSE tasks
           kept      == IF exclusive THEN {} ELSE _tasks[name]
       IN  /\ tasks' = Append(cancelled, NewTask(name, interval, exclusive))
           /\ _tasks' = [_tasks EXCEPT ![name] = kept \cup {Len(tasks) + 1}]
    /\ nonExclusive' = IF exclusive THEN nonExclusive ELSE nonExclusive \cup {name}
    /\ UNCHANGED <<callbacks, callbackErrors>>
    /\ UNCHANGED notTask

\* cancel_all without `self._tasks.clear()`.
cancel_all_keeping_registry ==
    /\ tasks' = CancelEach(tasks, UNION { _tasks[n] : n \in TaskNames })
    /\ UNCHANGED <<_tasks, callbacks, nonExclusive, callbackErrors>>
    /\ UNCHANGED notTask

\* TaskManager.cancel_all
cancel_all ==
    /\ tasks' = CancelEach(tasks, UNION { _tasks[n] : n \in TaskNames })
    /\ _tasks' = [n \in TaskNames |-> {}]
    /\ UNCHANGED <<callbacks, nonExclusive, callbackErrors>>
    /\ UNCHANGED notTask

\* TaskManager.cancel(fn_name)
cancel(name) ==
    /\ tasks' = CancelEach(tasks, _tasks[name])
    /\ _tasks' = [_tasks EXCEPT ![name] = {}]
    /\ UNCHANGED <<callbacks, nonExclusive, callbackErrors>>
    /\ UNCHANGED notTask

Finish(t, result) ==
    /\ tasks' = [tasks EXCEPT ![t].state = "finished", ![t].result = result]
    /\ callbacks' = callbacks \cup {t}
    /\ UNCHANGED <<_tasks, nonExclusive, callbackErrors>>
    /\ UNCHANGED notTask

\* `await fn(*args)` returns: a one-shot task is done, _set_interval goes on
\* to asyncio.sleep(interval).
JobReturns(t) ==
    /\ tasks[t].state = "pending" /\ tasks[t].phase = "job"
    /\ IF tasks[t].interval
       THEN /\ tasks' = [tasks EXCEPT ![t].phase = "sleep"]
            /\ UNCHANGED <<_tasks, callbacks, nonExclusive, callbackErrors>>
            /\ UNCHANGED notTask
       ELSE Finish(t, "ok")

\* `await fn(*args)` raises: the exception ends the task, also inside the
\* `while True` of _set_interval, which has no handler.
JobRaises(t) ==
    /\ tasks[t].state = "pending" /\ tasks[t].phase = "job"
    /\ Finish(t, "exception")

\* asyncio.sleep(interval) of _set_interval returns; fn is awaited again.
SleepReturns(t) ==
    /\ tasks[t].state = "pending" /\ tasks[t].phase = "sleep"
    /\ tasks' = [tasks EXCEPT ![t].phase = "job"]
    /\ UNCHANGED <<_tasks, callbacks, nonExclusive, callbackErrors>>
    /\ UNCHANGED notTask

\* A task whose cancellation was requested runs next: CancelledError.
TaskCancelled(t) ==
    /\ tasks[t].state = "cancelling"
    /\ Finish(t, "cancelled")

\* TaskManager._remove_task(task_name, task), run by the event loop as the
\* done callback of a finished task.  set.remove raises KeyError when the
\* task is not in a non-empty set; the event loop logs it.
_remove_task(t) ==
    /\ t \in callbacks
    /\ callbacks' = callbacks \ {t}
    /\ LET task_set == _tasks[tasks[t].name]
       IN  IF task_set # {}
           THEN IF t \in task_set
                THEN /\ _tasks' = [_tasks EXCEPT ![tasks[t].name] = task_set \ {t}]
                     /\ UNCHANGED callbackErrors
                ELSE /\ callbackErrors' = callbackErrors + 1
                     /\ UNCHANGED _tasks
           ELSE UNCHANGED <<_tasks, callbackErrors>>
    /\ UNCHANGED <<tasks, nonExclusive>>
    /\ UNCHANGED notTask

\* ------------------------------------------------------------------------
\* Sessions and the summarization job (session.py, commands.py)
\* ------------------------------------------------------------------------
\* A message of a history is modelled by its number, a summary by the set
\* of messages folded into it ({} is the empty summary ""), as the
\* completion is asked to summarize the previous summary and the slice.
Session(id) ==
    [id |-> id, title |-> "Untitled", system_prompt |-> <<>>, summary |-> {},
     history |-> <<>>, last_summarized_index |-> -1]

Max(a, b) == IF a > b THEN a ELSE b
Min(a, b) == IF a < b THEN a ELSE b

\* Python's s[lo:hi]: a negative bound counts from the end, and both are
\* clamped to 0..len(s).
PySlice(s, lo, hi) ==
    LET n == Len(s)
        l == IF lo < 0 THEN Max(n + lo, 0) ELSE Min(lo, n)
        h == IF hi < 0 THEN Max(n + hi, 0) ELSE Min(hi, n)
    IN  IF l >= h THEN <<>> ELSE SubSeq(s, l + 1, h)

Range(s) == { s[k] : k \in 1..Len(s) }

NoEndIndex == -1000      \* end_index=None

\* A call of create_summary or generate_title suspended in its completion
\* request; session_id is the id of the session that was current when the
\* call started.
NoJob == [active |-> FALSE, start_index |-> 0, slice |-> <<>>, previous |-> {},
          since |-> -1, length |-> 0, window |-> -1, end_index |-> NoEndIndex,
          session_id |-> 0]

\* The calls that can be in flight: create_summary as a background task and
\* as the /summary command, generate_title as a background task.
JobSlots == {"background", "command", "title"}

NoReturn == [slot |-> "none", outcome |-> "none", job |-> NoJob,
             indexBefore |-> -1, summaryBefore |-> {},
             indexAfter |-> -1, summaryAfter |-> {}]

\* create_summary slicing from the start of the history instead of from
\* start_index.
messages_to_summarize_from_zero(current_messages, start_index, window, end_index) ==
    IF end_index # NoEndIndex THEN PySlice(current_messages, 0, end_index)
    ELSE IF window = -1 THEN PySlice(current_messages, 0, Len(current_messages))
    ELSE IF window = 0 THEN PySlice(current_messages, 0, 0)
    ELSE PySlice(current_messages, 0, -window * 2)

\* Lines 160-167: the slice of the history create_summary summarizes.
\* current_messages[a : -0] is current_messages[a : 0].
messages_to_summarize(current_messages, start_index, window, end_index) ==
    IF end_index # NoEndIndex THEN PySlice(current_messages, start_index, end_index)
    ELSE IF window = -1 THEN PySlice(current_messages, start_index, Len(current_messages))
    ELSE IF window = 0 THEN PySlice(current_messages, start_index, 0)
    ELSE PySlice(current_messages, start_index, -window * 2)

\* repo.update_session(session): db.update rewrites the row of the session.
update_session(rows, sess) == [rows EXCEPT ![sess.id] = sess]

NoSession == 0           \* latest_session_id None; doc ids start at 1

NoCommand == [cmd |-> "none", arg |-> 0, outcome |-> "none"]
Command(cmd, arg, outcome) == [cmd |-> cmd, arg |-> arg, outcome |-> outcome]

\* The foreground (prompt loop and command handlers) is not inside
\* `await create_summary` of the /summary command.
ForegroundFree == ~jobs["command"].active

\* add_to_history putting the message in front of the history.
add_to_history_in_front ==
    /\ ForegroundFree
    /\ nextMsg <= MaxMsgs
    /\ session' = [session EXCEPT !.history = <<nextMsg>> \o @]
    /\ repo' = update_session(repo, session')
    /\ nextMsg' = nextMsg + 1
    /\ UNCHANGED <<max_history_turns, jobs, lastReturn>>
    /\ UNCHANGED storeVars
    /\ UNCHANGED notSession

\* SessionManager.add_to_history(message)
add_to_history ==
    /\ ForegroundFree
    /\ nextMsg <= MaxMsgs
    /\ session' = [session EXCEPT !.history = Append(@, nextMsg)]
    /\ repo' = update_session(repo, session')
    /\ nextMsg' = nextMsg + 1
    /\ UNCHANGED <<max_history_turns, jobs, lastReturn>>
    /\ UNCHANGED storeVars
    /\ UNCHANGED notSession

\* SessionManager._clear_history
_clear_history(sess) ==
    [sess EXCEPT !.history = <<>>, !.summary = {}, !.last_summarized_index = -1]

\* SessionManager.clear_history
clear_history ==
    /\ ForegroundFree
    /\ session' = _clear_history(session)
    /\ repo' = update_session(repo, session')
    /\ UNCHANGED <<max_history_turns, nextMsg, jobs, lastReturn>>
    /\ UNCHANGED storeVars
    /\ UNCHANGED notSession

\* clear_session without line 91, the reset of the system prompt.
clear_session_keeping_prompt ==
    /\ ForegroundFree
    /\ session' = _clear_history(session)
    /\ repo' = update_session(repo, session')
    /\ cmdResult' = Command("clear_session", session.id, "ok")
    /\ UNCHANGED <<max_history_turns, nextMsg, jobs, lastReturn,
                   session_meta, meta_row, next_id>>
    /\ UNCHANGED notSession

\* SessionManager.clear_session
clear_session ==
    /\ ForegroundFree
    /\ session' = [_clear_history(session) EXCEPT !.system_prompt = <<>>]
    /\ repo' = update_session(repo, session')
    /\ cmdResult' = Command("clear_session", session.id, "ok")
    /\ UNCHANGED <<max_history_turns, nextMsg, jobs, lastReturn,
                   session_meta, meta_row, next_id>>
    /\ UNCHANGED notSession

\* SessionManager.set_system_prompt(system_prompt)
set_system_prompt(system_prompt) ==
    /\ ForegroundFree
    /\ session' = [session EXCEPT !.system_prompt = system_prompt]
    /\ repo' = update_session(repo, session')
    /\ UNCHANGED <<max_history_turns, nextMsg, jobs, lastReturn>>
    /\ UNCHANGED storeVars
    /\ UNCHANGED notSession

\* Lines 156-189 of create_summary, run when the call starts: with an empty
\* slice the call returns at once, otherwise it builds the prompt from the
\* summary and the slice and suspends in `await llm_client.completion`.
StartSummary(slot, window, end_index) ==
    LET start_index == session.last_summarized_index + 1
        slice == messages_to_summarize(session.history, start_index, window, end_index)
        job   == [active |-> TRUE, start_index |-> start_index, slice |-> slice,
                  previous |-> session.summary,
                  since |-> session.last_summarized_index,
                  length |-> Len(session.history),
                  window |-> window, end_index |-> end_index,
                  session_id |-> session.id]
    IN  /\ ~jobs[slot].active
        /\ IF slice = <<>>
           THEN /\ lastReturn' = [slot |-> slot, outcome |-> "nothing_to_do",
                                  job |-> [job EXCEPT !.active = FALSE],
                                  indexBefore |-> session.last_summarized_index,
                                  summaryBefore |-> session.summary,
                                  indexAfter |-> session.last_summarized_index,
                                  summaryAfter |-> session.summary]
                /\ UNCHANGED jobs
           ELSE /\ jobs' = [jobs EXCEPT ![slot] = job]
                /\ UNCHANGED lastReturn
        /\ UNCHANGED <<session, repo, max_history_turns, nextMsg>>
        /\ UNCHANGED storeVars
        /\ UNCHANGED notSession

\* The summarization job is scheduled as a background task after a turn:
\* create_summary(llm_client, summary_model, max_history_turns).
ScheduleSummary ==
    /\ ForegroundFree
    /\ StartSummary("background", max_history_turns, NoEndIndex)

\* CommandManager.create_summary, the /summary command.
SummaryCommand ==
    /\ ForegroundFree
    /\ session.history # <<>>
    /\ StartSummary("command", -1, Len(session.history))

\* The background task is cancelled (task.cancel() of the coordinator):
\* CancelledError is thrown into `await llm_client.completion`, which the
\* `except Exception` of create_summary does not catch.
CancelSummary ==
    /\ ForegroundFree
    /\ jobs["background"].active
    /\ jobs' = [jobs EXCEPT !["background"] = NoJob]
    /\ lastReturn' = [slot |-> "background", outcome |-> "cancelled",
                      job |-> [jobs["background"] EXCEPT !.active = FALSE],
                      indexBefore |-> session.last_summarized_index,
                      summaryBefore |-> session.summary,
                      indexAfter |-> session.last_summarized_index,
                      summaryAfter |-> session.summary]
    /\ UNCHANGED <<session, repo, max_history_turns, nextMsg>>
    /\ UNCHANGED storeVars
    /\ UNCHANGED notSession

\* create_summary interrupted between the assignment of summary (line 192)
\* and that of last_summarized_index (line 197).
CompletionReturnsSummaryOnly(slot, stored) ==
    LET job     == jobs[slot]
        updated == [session EXCEPT !.summary = job.previous \cup Range(job.slice)]
    IN  /\ job.active
        /\ session' = updated
        /\ repo' = IF stored THEN update_session(repo, updated) ELSE repo
        /\ jobs' = [jobs EXCEPT ![slot] = NoJob]
        /\ lastReturn' = [slot |-> slot,
                          outcome |-> IF stored THEN "summarized" ELSE "raised",
                          job |-> [job EXCEPT !.active = FALSE],
                          indexBefore |-> session.last_summarized_index,
                          summaryBefore |-> session.summary,
                          indexAfter |-> updated.last_summarized_index,
                          summaryAfter |-> updated.summary]
        /\ UNCHANGED <<max_history_turns, nextMsg>>
        /\ UNCHANGED storeVars
        /\ UNCHANGED notSession

\* Lines 192-199: the completion returns; summary and last_summarized_index
\* of the session that is current now are assigned, then the row is
\* updated.  When update_session raises, the except clause re-raises it as
\* RuntimeError with both fields already assigned.
CompletionReturns(slot, stored) ==
    LET job       == jobs[slot]
        new_index == job.start_index + Len(job.slice) - 1
        updated   == [session EXCEPT !.summary = job.previous \cup Range(job.slice),
                                     !.last_summarized_index = new_index]
    IN  /\ job.active
        /\ session' = updated
        /\ repo' = IF stored THEN update_session(repo, updated) ELSE repo
        /\ jobs' = [jobs EXCEPT ![slot] = NoJob]
        /\ lastReturn' = [slot |-> slot,
                          outcome |-> IF stored THEN "summarized" ELSE "raised",
                          job |-> [job EXCEPT !.active = FALSE],
                          indexBefore |-> session.last_summarized_index,
                          summaryBefore |-> session.summary,
                          indexAfter |-> updated.last_summarized_index,
                          summaryAfter |-> updated.summary]
        /\ UNCHANGED <<max_history_turns, nextMsg>>
        /\ UNCHANGED storeVars
        /\ UNCHANGED notSession

\* Lines 192-201: llm_client.completion raises (timeout, API error); the
\* assignment of line 192 does not happen and RuntimeError is raised.
CompletionFails(slot) ==
    /\ jobs[slot].active
    /\ jobs' = [jobs EXCEPT ![slot] = NoJob]
    /\ lastReturn' = [slot |-> slot, outcome |-> "raised",
                      job |-> [jobs[slot] EXCEPT !.active = FALSE],
                      indexBefore |-> session.last_summarized_index,
                      summaryBefore |-> session.summary,
                      indexAfter |-> session.last_summarized_index,
                      summaryAfter |-> session.summary]
    /\ UNCHANGED <<session, repo, max_history_turns, nextMsg>>
    /\ UNCHANGED storeVars
    /\ UNCHANGED notSession

GeneratedTitle == "T"    \* the title the completion returns

\* SessionManager.generate_title up to its request (lines 119-140): the
\* input is taken from the current session and the call is suspended in
\* `await llm_client.completion`.
generate_title ==
    /\ ForegroundFree
    /\ ~jobs["title"].active
    /\ jobs' = [jobs EXCEPT !["title"] =
                    [NoJob EXCEPT !.active = TRUE, !.session_id = session.id]]
    /\ UNCHANGED <<session, repo, max_history_turns, nextMsg, lastReturn>>
    /\ UNCHANGED storeVars
    /\ UNCHANGED notSession

\* Lines 141-145: the completion returns; `self._current_session.title =
\* await ...` assigns the title of the session that is current now, and its
\* row is updated.
TitleReturns ==
    LET job == jobs["title"]
    IN  /\ job.active
        /\ jobs' = [jobs EXCEPT !["title"] = NoJob]
        /\ session' = [session EXCEPT !.title = GeneratedTitle]
        /\ repo' = update_session(repo, session')
        /\ UNCHANGED <<max_history_turns, nextMsg, lastReturn>>
        /\ UNCHANGED storeVars
        /\ UNCHANGED notSession

\* Lines 146-147: the completion raises and generate_title raises
\* RuntimeError; nothing was assigned.
TitleFails ==
    /\ jobs["title"].active
    /\ jobs' = [jobs EXCEPT !["title"] = NoJob]
    /\ UNCHANGED <<session, repo, max_history_turns, nextMsg, lastReturn>>
    /\ UNCHANGED storeVars
    /\ UNCHANGED notSession

\* SessionManager.create_session, the /new-session command: _new_session
\* inserts a row, which becomes the current session.
create_session ==
    /\ ForegroundFree
    /\ next_id <= MaxSessions
    /\ repo' = [id \in DOMAIN repo \cup {next_id} |->
                    IF id = next_id THEN Session(next_id) ELSE repo[id]]
    /\ session' = Session(next_id)
    /\ session_meta' = next_id
    /\ next_id' = next_id + 1
    /\ cmdResult' = Command("new-session", next_id, "ok")
    /\ UNCHANGED <<max_history_turns, nextMsg, jobs, lastReturn, meta_row>>
    /\ UNCHANGED notSession

\* SessionManager.switch_session(session_id), the /switch-session command.
switch_session(session_id) ==
    /\ ForegroundFree
    /\ IF session_id \in DOMAIN repo
       THEN /\ session' = repo[session_id]
            /\ session_meta' = session_id
            /\ cmdResult' = Command("switch-session", session_id, "ok")
       ELSE /\ cmdResult' = Command("switch-session", session_id, "ValueError")
            /\ UNCHANGED <<session, session_meta>>
    /\ UNCHANGED <<repo, max_history_turns, nextMsg, jobs, lastReturn, meta_row, next_id>>
    /\ UNCHANGED notSession

\* db.delete_one(table, doc_id)
delete_one(rows, doc_id) == [id \in DOMAIN rows \ {doc_id} |-> rows[id]]

\* delete_session without the check of lines 80-81.
delete_session_unchecked(session_id) ==
    /\ ForegroundFree
    /\ IF session_id \notin DOMAIN repo
       THEN /\ cmdResult' = Command("delete-session", session_id, "ValueError")
            /\ UNCHANGED repo
       ELSE /\ repo' = delete_one(repo, session_id)
            /\ cmdResult' = Command("delete-session", session_id, "ok")
    /\ UNCHANGED <<session, max_history_turns, nextMsg, jobs, lastReturn,
                   session_meta, meta_row, next_id>>
    /\ UNCHANGED notSession

\* CommandManager.delete_session, the /delete-session command: the id is
\* looked up in list_sessions(), then SessionManager.delete_session refuses
\* the id of the current session and deletes any other row.
delete_session(session_id) ==
    /\ ForegroundFree
    /\ IF session_id \notin DOMAIN repo
       THEN /\ cmdResult' = Command("delete-session", session_id, "ValueError")
            /\ UNCHANGED repo
       ELSE IF session_id = session.id
       THEN /\ cmdResult' = Command("delete-session", session_id, "ValueError")
            /\ UNCHANGED repo
       ELSE /\ repo' = delete_one(repo, session_id)
            /\ cmdResult' = Command("delete-session", session_id, "ok")
    /\ UNCHANGED <<session, max_history_turns, nextMsg, jobs, lastReturn,
                   session_meta, meta_row, next_id>>
    /\ UNCHANGED notSession

\* SessionManager.flush: the row of the current session and the meta row
\* are updated and the cache is written out.
flush ==
    /\ ForegroundFree
    /\ repo' = update_session(repo, session)
    /\ meta_row' = session_meta
    /\ cmdResult' = Command("flush", session.id, "ok")
    /\ UNCHANGED <<session, max_history_turns, nextMsg, jobs, lastReturn,
                   session_meta, next_id>>
    /\ UNCHANGED notSession

\* ------------------------------------------------------------------------
\* A turn in which every response carries a complete tool call and no
\* finish_reason "stop"
\* ------------------------------------------------------------------------
ToolCallLine ==
    DataLine(Choice(None, Delta(<<Fragment(0, "c1", web_search, <<"{", "q", "}">>)>>,
                                <<>>, <<>>)))
FinishToolCallsLine == DataLine(Choice("tool_calls", NoDelta))

RoundsResponses == { <<ToolCallLine>>, <<ToolCallLine, FinishToolCallsLine>> }

\* ------------------------------------------------------------------------
\* Specification of exec_tool_calls on its own: the input is any list of
\* merged tool calls.
\* ------------------------------------------------------------------------
ToolCall(id, nm, args) ==
    [id |-> id, type |-> "function", name |-> nm, arguments |-> args]

ToolCallSet ==
    { ToolCall("c1", web_search, <<"{", "q", "}">>),
      ToolCall("c2", read_file, <<"{", "q", "}">>),
      ToolCall("c3", <<"x">>, <<"{", "q", "}">>),
      ToolCall("c4", web_search, <<"{">>),
      ToolCall(None, read_file, <<"{", "}">>) }

exec_tool_calls ==
    /\ execPc = "idle"
    /\ ExecStart(toolCalls)
    /\ UNCHANGED notTool

\* ------------------------------------------------------------------------
\* The responses of the completion service to one request
\* ------------------------------------------------------------------------
ContentLine(text)  == DataLine(Choice(None, Delta(<<>>, <<>>, text)))
ThinkingLine(text) == DataLine(Choice(None, Delta(<<>>, text, <<>>)))
StopLine           == DataLine(Choice("stop", NoDelta))
LengthLine         == DataLine(Choice("length", NoDelta))
\* the last chunk carrying finish_reason "stop" together with a delta
StopWithDeltaLine  == DataLine(Choice("stop", Delta(<<>>, <<"u">>, <<"i">>)))

SecondToolCallLine ==
    DataLine(Choice(None, Delta(<<Fragment(1, "c2", read_file, <<"{", "q", "}">>)>>,
                                <<>>, <<>>)))

ResponseLines ==
    { ContentLine(<<"H">>), StopWithDeltaLine, ThinkingLine(<<"t">>),
      StopLine, LengthLine, DoneLine, GarbageLine, ErrorLine(<<"boom">>),
      ToolCallLine, SecondToolCallLine }

Responses == UNION { [1..n -> ResponseLines] : n \in 0..MaxLines }

\* ------------------------------------------------------------------------
\* Chat._chat_completion_stream and Chat._process (chat.py)
\* ------------------------------------------------------------------------
\* "choices": [] is a line without choices and "delta": {} a choice without
\* delta.  A chunk of aiter_bytes holds whole lines.
Message(role, content) == [role |-> role, content |-> content]

\* Chat._process(data, thinking, content), from line k of the chunk on:
\* the for loop with its `continue`s and the `break` at [DONE].
RECURSIVE ProcessFrom(_, _, _, _)
ProcessFrom(data, k, thinking, content) ==
    IF k > Len(data) THEN <<thinking, content>>
    ELSE LET chunk == data[k]
         IN  IF chunk.prefix = "" /\ chunk.form = "empty"
             THEN ProcessFrom(data, k + 1, thinking, content)
             ELSE IF chunk.prefix # "data: "
             THEN ProcessFrom(data, k + 1, thinking, content)
             ELSE IF chunk.form = "[DONE]" THEN <<thinking, content>>
             ELSE IF chunk.form # "object"
             THEN ProcessFrom(data, k + 1, thinking, content)
             ELSE IF chunk.choices = <<>>
             THEN ProcessFrom(data, k + 1, thinking, content)
             ELSE IF ~chunk.choices[1].delta.present
             THEN ProcessFrom(data, k + 1, thinking, content)
             ELSE ProcessFrom(data, k + 1,
                              thinking \o chunk.choices[1].delta.reasoning_content,
                              content \o chunk.choices[1].delta.content)

_process(data, thinking, content) == ProcessFrom(data, 1, thinking, content)

NoPrompt == <<None>>        \* history.system_prompt is None
SummaryIntro == "\n\nPrevious conversation summary: "

\* The context with the unsummarized part taken from last_summarized_index.
ContextFromIndex(user_input) ==
    LET base == IF hm_system_prompt = NoPrompt THEN <<>> ELSE hm_system_prompt
        system_prompt == IF hm_summary # <<>>
                         THEN base \o <<SummaryIntro>> \o hm_summary
                         ELSE base
    IN  (IF system_prompt # <<>> THEN <<Message("system", system_prompt)>> ELSE <<>>)
            \o PySlice(hm_messages, _last_summarized_index, Len(hm_messages))
            \o <<Message("user", user_input)>>

\* Chat._build_message_context(prompt): `system_prompt or ""`, the summary
\* suffix, the system message when the text is not empty, the history from
\* _last_summarized_index + 1 on, the prompt.
_build_message_context(user_input) ==
    LET base == IF hm_system_prompt = NoPrompt THEN <<>> ELSE hm_system_prompt
        system_prompt == IF hm_summary # <<>>
                         THEN base \o <<SummaryIntro>> \o hm_summary
                         ELSE base
    IN  (IF system_prompt # <<>> THEN <<Message("system", system_prompt)>> ELSE <<>>)
            \o PySlice(hm_messages, _last_summarized_index + 1, Len(hm_messages))
            \o <<Message("user", user_input)>>

\* Lines 94-110: the request context is built and the request is sent.
ChatSend ==
    /\ chatPc = "idle"
    /\ chatMessages' = _build_message_context(prompt)
    /\ chatFailed' = FALSE
    /\ historyBefore' = hm_messages
    /\ chatRequests' = chatRequests + 1
    /\ chatData' = serverResponse
    /\ chatThinking' = <<>>
    /\ chatContent' = <<>>
    /\ chatPc' = "stream"
    /\ UNCHANGED <<serverResponse, hm_messages, prompt, console>>
    /\ UNCHANGED <<chatCtxVars, chatBgVars>>
    /\ UNCHANGED notChat

\* Lines 112-113: one iteration of `async for data in response.aiter_bytes()`
\* on a chunk of n lines.
ChatReadData(n) ==
    /\ chatPc = "stream"
    /\ n \in 1..Len(chatData)
    /\ LET result == _process(SubSeq(chatData, 1, n), chatThinking, chatContent)
       IN  /\ chatThinking' = result[1]
           /\ chatContent' = result[2]
    /\ chatData' = SubSeq(chatData, n + 1, Len(chatData))
    /\ UNCHANGED <<serverResponse, chatPc, hm_messages, historyBefore, prompt,
                   chatRequests, chatFailed, chatMessages, console>>
    /\ UNCHANGED <<chatCtxVars, chatBgVars>>
    /\ UNCHANGED notChat

\* The turn recorded with the reply before the user input.
AddTurnReplyFirst(messages_, user_input, content) ==
    messages_ \o (IF content # <<>> THEN <<Message("assistant", content)>> ELSE <<>>)
        \o <<Message("user", user_input)>>

\* Lines 134-136, after the `async with`: the user message is added, and the
\* assistant message when content is not empty.
AddTurn(messages_, user_input, content) ==
    Append(messages_, Message("user", user_input))
        \o (IF content # <<>> THEN <<Message("assistant", content)>> ELSE <<>>)

\* The response is exhausted: lines 134-136.
ChatStreamEnds ==
    /\ chatPc = "stream"
    /\ chatData = <<>>
    /\ hm_messages' = AddTurn(hm_messages, prompt, chatContent)
    /\ chatPc' = "done"
    /\ UNCHANGED <<serverResponse, historyBefore, prompt, chatData, chatThinking,
                   chatContent, chatRequests, chatFailed, chatMessages, console>>
    /\ UNCHANGED <<chatCtxVars, chatBgVars>>
    /\ UNCHANGED notChat

\* Lines 128-136: the request times out or the connection fails; the except
\* clauses print the error (either text is "API error" here) and lines
\* 134-136 run.
ChatStreamFails ==
    /\ chatPc = "stream"
    /\ chatData # <<>>
    /\ chatFailed' = TRUE
    /\ console' = Append(console, "API error")
    /\ hm_messages' = AddTurn(hm_messages, prompt, chatContent)
    /\ chatPc' = "done"
    /\ UNCHANGED <<serverResponse, historyBefore, prompt, chatData, chatThinking,
                   chatContent, chatRequests, chatMessages>>
    /\ UNCHANGED <<chatCtxVars, chatBgVars>>
    /\ UNCHANGED notChat

\* ------------------------------------------------------------------------
\* The prompt loop of Chat with its background tasks (chat.py, history.py)
\* ------------------------------------------------------------------------
NotExited == -1         \* the process is running

\* Chat._summary_task: None, or a task running _summarize.  count is
\* len(messages_to_summarize); exception is what task.exception() gives.
NoSummaryTask == [state |-> "none", exception |-> FALSE, count |-> 0]

SummaryText == <<"m">>  \* the summary the service returns

\* History._config.history_limit as _load_config derives it:
\* max_history_turns * 2 if max_history_turns else -1.
history_limit == IF max_history_turns # 0 THEN max_history_turns * 2 ELSE -1

\* What is in history.json: nothing after open(path, "w"), or the dump
\* json.dumps(self.history.model_dump()) of a write.
EmptyFile == [written |-> FALSE, system_prompt |-> NoPrompt, summary |-> <<>>,
              messages |-> <<>>]

Dump == [written |-> TRUE, system_prompt |-> hm_system_prompt,
         summary |-> hm_summary, messages |-> hm_messages]

\* A call of HistoryManager.save: not running, or suspended in
\* aiofiles.open, in f.write or in the close of the `async with`.
NoSave == [pc |-> "idle", data |-> EmptyFile]

ChatBackgroundIdle ==
    /\ _summary_task = NoSummaryTask
    /\ _history_task = [state |-> "none", save |-> NoSave]
    /\ historyFile = EmptyFile
    /\ quitPc = [state |-> "none", save |-> NoSave]
    /\ exitCode = NotExited

\* HistoryManager.save up to its first suspension: aiofiles.open hands
\* open(path, "w") to a thread, which empties the file.
SaveOpens == [pc |-> "open", data |-> EmptyFile]

\* save resumes with the file open: the dump of the history as it is now
\* goes into the buffer of f and the coroutine is suspended in f.write.
SaveWrites == [pc |-> "write", data |-> Dump]

\* save resumes after f.write: leaving the `async with` closes f, which
\* puts the buffer in the file.
SaveCloses(save) == [pc |-> "close", data |-> save.data]

\* The running process: none of its coroutines takes a step after exit.
Running == exitCode = NotExited

\* _create_summary_task without `if not self._summary_task`: a task is
\* created at the end of every turn.
_create_summary_task_every_turn ==
    /\ Running
    /\ chatPc = "done"
    /\ chatPc' = "idle"
    /\ LET done == _summary_task.state = "done"
           reported == done /\ _summary_task.exception
       IN  /\ console' = IF reported
                         THEN Append(console, "Conversation summary failed")
                         ELSE console
           /\ _summary_task' = [NoSummaryTask EXCEPT !.state = "scheduled"]
    /\ UNCHANGED <<serverResponse, hm_messages, historyBefore, prompt, chatData,
                   chatThinking, chatContent, chatRequests, chatFailed,
                   chatMessages, chatCtxVars, _history_task, historyFile,
                   quitPc, exitCode>>
    /\ UNCHANGED notChat

\* Line 77 of start(), after the turn: _create_summary_task (lines 312-319),
\* then the loop is back at the prompt.
_create_summary_task ==
    /\ Running
    /\ chatPc = "done"
    /\ chatPc' = "idle"
    /\ LET done == _summary_task.state = "done"
           reported == done /\ _summary_task.exception
           cleared == IF done THEN NoSummaryTask ELSE _summary_task
       IN  /\ console' = IF reported
                         THEN Append(console, "Conversation summary failed")
                         ELSE console
           /\ _summary_task' = IF cleared.state = "none"
                               THEN [NoSummaryTask EXCEPT !.state = "scheduled"]
                               ELSE cleared
    /\ UNCHANGED <<serverResponse, hm_messages, historyBefore, prompt, chatData,
                   chatThinking, chatContent, chatRequests, chatFailed,
                   chatMessages, chatCtxVars, _history_task, historyFile,
                   quitPc, exitCode>>
    /\ UNCHANGED notChat

\* Chat._summarize, lines 266-303: the slice to summarize is taken; the
\* coroutine returns when it is empty and is suspended in client.post
\* otherwise.
_summarize ==
    /\ Running
    /\ _summary_task.state = "scheduled"
    /\ LET start == _last_summarized_index + 1
           to_summarize ==
               IF history_limit = -1
               THEN PySlice(hm_messages, start, Len(hm_messages))
               ELSE PySlice(hm_messages, start, -history_limit)
       IN  _summary_task' =
               IF to_summarize = <<>>
               THEN [_summary_task EXCEPT !.state = "done"]
               ELSE [_summary_task EXCEPT !.state = "request",
                                          !.count = Len(to_summarize)]
    /\ UNCHANGED <<serverResponse, chatPc, hm_messages, historyBefore, prompt,
                   chatData, chatThinking, chatContent, chatRequests, chatFailed,
                   chatMessages, chatCtxVars, console, _history_task,
                   historyFile, quitPc, exitCode>>
    /\ UNCHANGED notChat

\* Lines 304-306: the service answers with a summary.
SummarizeReturns ==
    /\ Running
    /\ _summary_task.state = "request"
    /\ hm_summary' = SummaryText
    /\ _last_summarized_index' = _last_summarized_index + _summary_task.count
    /\ _summary_task' = [_summary_task EXCEPT !.state = "done"]
    /\ UNCHANGED <<serverResponse, chatPc, hm_messages, historyBefore, prompt,
                   chatData, chatThinking, chatContent, chatRequests, chatFailed,
                   chatMessages, hm_system_prompt, console, _history_task,
                   historyFile, quitPc, exitCode>>
    /\ UNCHANGED notChat

\* Lines 307-310: the request or the reading of its answer raises; the
\* except clause prints and the coroutine returns normally.
SummarizeFails ==
    /\ Running
    /\ _summary_task.state = "request"
    /\ console' = Append(console, "Failed generate conversation summary")
    /\ _summary_task' = [_summary_task EXCEPT !.state = "done"]
    /\ UNCHANGED <<serverResponse, chatPc, hm_messages, historyBefore, prompt,
                   chatData, chatThinking, chatContent, chatRequests, chatFailed,
                   chatMessages, chatCtxVars, _history_task, historyFile,
                   quitPc, exitCode>>
    /\ UNCHANGED notChat

\* An exception leaves _summarize: one raised outside the try (closing the
\* AsyncClient) or by the print of the except clause.  The task ends with
\* the exception stored.
SummarizeRaises ==
    /\ Running
    /\ _summary_task.state = "request"
    /\ _summary_task' = [_summary_task EXCEPT !.state = "done", !.exception = TRUE]
    /\ UNCHANGED <<serverResponse, chatPc, hm_messages, historyBefore, prompt,
                   chatData, chatThinking, chatContent, chatRequests, chatFailed,
                   chatMessages, chatCtxVars, console, _history_task,
                   historyFile, quitPc, exitCode>>
    /\ UNCHANGED notChat

ChatLoopFrame ==
    UNCHANGED <<serverResponse, chatPc, hm_messages, historyBefore, prompt,
                chatData, chatThinking, chatContent, chatRequests, chatFailed,
                chatMessages, chatCtxVars, console, _summary_task, exitCode>>

\* _set_interval(self._hm.save, 300), lines 349-352: the sleep is over and
\* the loop calls save again.
_set_interval ==
    /\ Running
    /\ _history_task.state = "sleeping"
    /\ _history_task' = [state |-> "saving", save |-> SaveOpens]
    /\ historyFile' = EmptyFile
    /\ UNCHANGED quitPc
    /\ ChatLoopFrame
    /\ UNCHANGED notChat

\* save of the interval task goes on to f.write.
IntervalWrites ==
    /\ Running
    /\ _history_task.state = "saving" /\ _history_task.save.pc = "open"
    /\ _history_task' = [_history_task EXCEPT !.save = SaveWrites]
    /\ UNCHANGED <<historyFile, quitPc>>
    /\ ChatLoopFrame
    /\ UNCHANGED notChat

\* save of the interval task leaves the `async with`.
IntervalCloses ==
    /\ Running
    /\ _history_task.state = "saving" /\ _history_task.save.pc = "write"
    /\ _history_task' = [_history_task EXCEPT !.save = SaveCloses(@)]
    /\ historyFile' = _history_task.save.data
    /\ UNCHANGED quitPc
    /\ ChatLoopFrame
    /\ UNCHANGED notChat

\* save of the interval task returns and the task sleeps.
IntervalSleeps ==
    /\ Running
    /\ _history_task.state = "saving" /\ _history_task.save.pc = "close"
    /\ _history_task' = [state |-> "sleeping", save |-> NoSave]
    /\ UNCHANGED <<historyFile, quitPc>>
    /\ ChatLoopFrame
    /\ UNCHANGED notChat

\* Chat._quit, line 200, from the prompt (EOF, Ctrl-C or /quit): save is
\* called and is suspended in aiofiles.open.
_quit ==
    /\ Running
    /\ chatPc = "idle"
    /\ quitPc.state = "none"
    /\ quitPc' = [state |-> "saving", save |-> SaveOpens]
    /\ historyFile' = EmptyFile
    /\ UNCHANGED _history_task
    /\ ChatLoopFrame
    /\ UNCHANGED notChat

\* save of _quit goes on to f.write.
QuitWrites ==
    /\ Running
    /\ quitPc.state = "saving" /\ quitPc.save.pc = "open"
    /\ quitPc' = [quitPc EXCEPT !.save = SaveWrites]
    /\ UNCHANGED <<historyFile, _history_task>>
    /\ ChatLoopFrame
    /\ UNCHANGED notChat

\* save of _quit leaves the `async with`.
QuitCloses ==
    /\ Running
    /\ quitPc.state = "saving" /\ quitPc.save.pc = "write"
    /\ quitPc' = [quitPc EXCEPT !.save = SaveCloses(@)]
    /\ historyFile' = quitPc.save.data
    /\ UNCHANGED _history_task
    /\ ChatLoopFrame
    /\ UNCHANGED notChat

\* A task after task.cancel() and the cleanup of asyncio.run: cancelled
\* unless it had finished.
CancelledSummaryTask ==
    IF _summary_task.state \in {"none", "done"} THEN _summary_task
    ELSE [_summary_task EXCEPT !.state = "cancelled"]

\* The file once the cancelled interval task has unwound: a save cancelled
\* in f.write still leaves its `async with`, which closes f.
FileAfterCancel ==
    IF _history_task.save.pc = "write" THEN _history_task.save.data
    ELSE historyFile

\* Lines 201-205: save has returned; both tasks are cancelled and exit(0)
\* ends the process.
QuitExits ==
    /\ Running
    /\ quitPc.state = "saving" /\ quitPc.save.pc = "close"
    /\ quitPc' = [state |-> "exited", save |-> NoSave]
    /\ _history_task' = [state |-> "cancelled", save |-> NoSave]
    /\ _summary_task' = CancelledSummaryTask
    /\ historyFile' = FileAfterCancel
    /\ exitCode' = 0
    /\ UNCHANGED <<serverResponse, chatPc, hm_messages, historyBefore, prompt,
                   chatData, chatThinking, chatContent, chatRequests, chatFailed,
                   chatMessages, chatCtxVars, console>>
    /\ UNCHANGED notChat

\* Chat._clear_history, the /clear_history command at the prompt, lines
\* 237-238: HistoryManager.clear (history.py 47-48) replaces the history by
\* a new one that keeps the system prompt and has no messages and no
\* summary.  _last_summarized_index and _summary_task are not touched.
Chat_clear_history ==
    /\ Running
    /\ chatPc = "idle"
    /\ quitPc.state = "none"
    /\ hm_messages' = <<>>
    /\ hm_summary' = <<>>
    /\ UNCHANGED <<hm_system_prompt, _last_summarized_index>>
    /\ UNCHANGED <<serverResponse, chatPc, historyBefore, prompt, chatData,
                   chatThinking, chatContent, chatRequests, chatFailed,
                   chatMessages, console, chatBgVars>>
    /\ UNCHANGED notChat

\* ------------------------------------------------------------------------
\* Specifications: each component on its own, the others at rest
\* ------------------------------------------------------------------------

MergeIdle ==
    /\ mergeIn = <<>> /\ mergeIn2 = <<>> /\ mergeOut = <<>> /\ mergeOut2 = <<>>
    /\ mergePc = "idle"

ToolIdle ==
    /\ toolCalls = <<>> /\ toolState = <<>> /\ toolResults = <<>>
    /\ toolOutcome = <<>> /\ completed = <<>> /\ execPc = "idle" /\ execResult = <<>>

TaskIdle ==
    /\ tasks = <<>>
    /\ _tasks = [n \in TaskNames |-> {}]
    /\ callbacks = {}
    /\ nonExclusive = {}
    /\ callbackErrors = 0

StreamIdle ==
    /\ streamPc = "idle" /\ messages = <<>> /\ requestsSent = 0
    /\ requestBody = <<>> /\ response = <<>> /\ stream = <<>>
    /\ tool_calls = <<>> /\ finished = FALSE /\ tool_calls_complete = <<>>
    /\ events = <<>>

SessionIdle ==
    /\ session = Session(1)
    /\ repo = [id \in {1} |-> Session(1)]
    /\ max_history_turns = -1
    /\ nextMsg = 1
    /\ jobs = [slot \in JobSlots |-> NoJob]
    /\ lastReturn = NoReturn
    /\ session_meta = 1 /\ meta_row = NoSession /\ next_id = 2
    /\ cmdResult = NoCommand

ChatIdle ==
    /\ serverResponse = <<>> /\ chatPc = "idle" /\ hm_messages = <<>>
    /\ historyBefore = <<>> /\ prompt = <<>> /\ chatData = <<>>
    /\ chatThinking = <<>> /\ chatContent = <<>> /\ chatRequests = 0
    /\ chatFailed = FALSE /\ chatMessages = <<>>
    /\ hm_system_prompt = NoPrompt /\ hm_summary = <<>>
    /\ _last_summarized_index = -1 /\ console = <<>>
    /\ ChatBackgroundIdle

MergeInit ==
    /\ mergeIn \in FragmentLists
    /\ \E p \in Orders(Len(mergeIn)) : mergeIn2 = Reorder(mergeIn, p)
    /\ mergeOut = <<>>
    /\ mergeOut2 = <<>>
    /\ mergePc = "ready"

MergeHarnessInit ==
    MergeInit /\ ToolIdle /\ TaskIdle /\ StreamIdle /\ SessionIdle /\ ChatIdle

MergeNext == MergeCall

MergeSpec == MergeHarnessInit /\ [][MergeNext]_vars

ToolsInit ==
    /\ MergeIdle /\ TaskIdle /\ StreamIdle /\ SessionIdle /\ ChatIdle
    /\ toolCalls \in UNION { [1..n -> ToolCallSet] : n \in 1..MaxCalls }
    /\ toolState = <<>> /\ toolResults = <<>> /\ toolOutcome = <<>>
    /\ completed = <<>> /\ execPc = "idle" /\ execResult = <<>>

ToolsNext ==
    \/ exec_tool_calls
    \/ \E i \in 1..Len(toolCalls) : ToolBegin(i)
    \/ \E i \in 1..Len(toolCalls) : ToolEnd(i)
    \/ GatherDone

ToolsSpec == ToolsInit /\ [][ToolsNext]_vars

TasksInit ==
    MergeIdle /\ ToolIdle /\ TaskIdle /\ StreamIdle /\ SessionIdle /\ ChatIdle

TasksNext ==
    \/ \E n \in TaskNames, i \in BOOLEAN, e \in BOOLEAN : create_task(n, i, e)
    \/ cancel_all
    \/ \E n \in TaskNames : cancel(n)
    \/ \E t \in 1..Len(tasks) : JobReturns(t)
    \/ \E t \in 1..Len(tasks) : JobRaises(t)
    \/ \E t \in 1..Len(tasks) : SleepReturns(t)
    \/ \E t \in 1..Len(tasks) : TaskCancelled(t)
    \/ \E t \in 1..Len(tasks) : _remove_task(t)

TasksSpec == TasksInit /\ [][TasksNext]_vars

RoundsInit ==
    MergeIdle /\ ToolIdle /\ TaskIdle /\ StreamInit /\ SessionIdle /\ ChatIdle

RoundsNext ==
    \/ SendRequest(RoundsResponses, RoundCap)
    \/ ReadLine
    \/ EndOfStream
    \/ PostStream
    \/ CallTools
    \/ \E i \in 1..Len(toolCalls) : ToolBegin(i)
    \/ \E i \in 1..Len(toolCalls) : ToolEnd(i)
    \/ GatherDone
    \/ ToolsReturned
    \/ ExtendMessages

RoundsSpec == RoundsInit /\ [][RoundsNext]_vars

\* SessionManager.__init__ on an empty store: one new session, current.
SessionInit ==
    /\ MergeIdle /\ ToolIdle /\ TaskIdle /\ StreamIdle /\ ChatIdle
    /\ session = Session(1)
    /\ repo = [id \in {1} |-> Session(1)]
    /\ max_history_turns \in -1..MaxWindow
    /\ nextMsg = 1
    /\ jobs = [slot \in JobSlots |-> NoJob]
    /\ lastReturn = NoReturn
    /\ session_meta = 1 /\ meta_row = NoSession /\ next_id = 2
    /\ cmdResult = NoCommand

SessionNext ==
    \/ add_to_history
    \/ clear_history
    \/ clear_session
    \/ \E p \in {<<>>, <<"s">>} : set_system_prompt(p)
    \/ ScheduleSummary
    \/ SummaryCommand
    \/ CancelSummary
    \/ \E slot \in {"background", "command"}, stored \in BOOLEAN :
           CompletionReturns(slot, stored)
    \/ \E slot \in {"background", "command"} : CompletionFails(slot)

SessionSpec == SessionInit /\ [][SessionNext]_vars

\* The sessions of the store: created, switched to, written to, deleted.
StoreNext ==
    \/ create_session
    \/ \E id \in 1..MaxSessions : switch_session(id)
    \/ \E id \in 1..MaxSessions : delete_session(id)
    \/ add_to_history
    \/ \E p \in {<<>>, <<"s">>} : set_system_prompt(p)
    \/ flush

StoreInit ==
    MergeIdle /\ ToolIdle /\ TaskIdle /\ StreamIdle /\ SessionIdle /\ ChatIdle

StoreSpec == StoreInit /\ [][StoreNext]_vars

\* One session with everything that runs on it: messages are added, the
\* history and the session are cleared, summaries and titles are requested
\* in the background and their requests return or fail.
HistoryNext ==
    \/ add_to_history
    \/ clear_history
    \/ clear_session
    \/ ScheduleSummary
    \/ \E stored \in BOOLEAN : CompletionReturns("background", stored)
    \/ CompletionFails("background")
    \/ generate_title
    \/ TitleReturns
    \/ TitleFails

HistorySpec == SessionInit /\ [][HistoryNext]_vars

\* The sessions of the store with the background jobs of the current one:
\* sessions are created and switched to while a summary or title request
\* is in flight.
JobsInit ==
    MergeIdle /\ ToolIdle /\ TaskIdle /\ StreamIdle /\ SessionIdle /\ ChatIdle

\* /new-session while fewer than MaxJobSessions sessions exist.
JobsCreate ==
    /\ next_id <= MaxJobSessions
    /\ create_session

JobsNext ==
    \/ JobsCreate
    \/ \E id \in 1..MaxJobSessions : switch_session(id)
    \/ add_to_history
    \/ ScheduleSummary
    \/ CompletionReturns("background", TRUE)
    \/ generate_title
    \/ TitleReturns

JobsSpec == JobsInit /\ [][JobsNext]_vars

\* Histories a turn starts from.
InitialHistories ==
    { <<>>, <<Message("user", <<"q">>), Message("assistant", <<"a">>)>> }

\* One turn: the user input is sent, once by Chat._chat_completion_stream
\* and once through LLMClient.stream_completion, and the service gives both
\* the same answer.
TurnInit ==
    /\ MergeIdle /\ ToolIdle /\ TaskIdle /\ SessionIdle
    /\ serverResponse \in Responses
    /\ hm_messages \in InitialHistories
    /\ prompt = <<"hi">>
    /\ chatPc = "idle" /\ historyBefore = <<>> /\ chatData = <<>>
    /\ chatThinking = <<>> /\ chatContent = <<>> /\ chatRequests = 0
    /\ chatFailed = FALSE /\ chatMessages = <<>>
    /\ hm_system_prompt = NoPrompt /\ hm_summary = <<>>
    /\ _last_summarized_index = -1 /\ console = <<>>
    /\ ChatBackgroundIdle
    /\ streamPc = "send"
    /\ messages = _build_message_context(prompt)
    /\ requestsSent = 0 /\ requestBody = <<>> /\ response = <<>> /\ stream = <<>>
    /\ tool_calls = <<>> /\ finished = FALSE
    /\ tool_calls_complete = <<>> /\ events = <<>>

\* The two paths share no state; the request through LLMClient is followed
\* once the turn of Chat has ended with its response read to the end.
TurnSend ==
    /\ chatPc = "done"
    /\ ~chatFailed
    /\ SendRequest({serverResponse}, MaxRounds)

TurnNext ==
    \/ ChatSend
    \/ \E n \in 1..MaxLines : ChatReadData(n)
    \/ ChatStreamEnds
    \/ ChatStreamFails
    \/ TurnSend
    \/ ReadLine
    \/ EndOfStream
    \/ PostStream
    \/ CallTools
    \/ \E i \in 1..Len(toolCalls) : ToolBegin(i)
    \/ \E i \in 1..Len(toolCalls) : ToolEnd(i)
    \/ GatherDone
    \/ ToolsReturned
    \/ ExtendMessages

TurnSpec == TurnInit /\ [][TurnNext]_vars

\* The request context of Chat: _build_message_context on every system
\* prompt, summary, history and summarized prefix, followed by the turn.
ContextMessages == { Message("user", <<"q">>), Message("assistant", <<"a">>) }

ContextHistories == UNION { [1..n -> ContextMessages] : n \in 0..MaxMsgs }

ContextInit ==
    /\ MergeIdle /\ ToolIdle /\ TaskIdle /\ StreamIdle /\ SessionIdle
    /\ ChatBackgroundIdle
    /\ serverResponse = <<>>
    /\ hm_messages \in ContextHistories
    /\ hm_system_prompt \in {NoPrompt, <<>>, <<"s">>}
    /\ hm_summary \in {<<>>, SummaryText}
    /\ _last_summarized_index \in -1..(Len(hm_messages) - 1)
    /\ prompt = <<"hi">>
    /\ chatPc = "idle" /\ historyBefore = <<>> /\ chatData = <<>>
    /\ chatThinking = <<>> /\ chatContent = <<>> /\ chatRequests = 0
    /\ chatFailed = FALSE /\ chatMessages = <<>> /\ console = <<>>

ContextNext ==
    \/ ChatSend
    \/ ChatStreamEnds

ContextSpec == ContextInit /\ [][ContextNext]_vars

\* Chat.__init__ and start() up to its first prompt: the history is the one
\* loaded from history.json, nothing is summarized, and the interval task,
\* which runs as soon as start() waits for input, is in its first save.
\* The service answers every turn with the same reply.
ChatInit ==
    /\ MergeIdle /\ ToolIdle /\ TaskIdle /\ StreamIdle
    /\ session = Session(1)
    /\ repo = [id \in {1} |-> Session(1)]
    /\ max_history_turns \in 0..MaxWindow
    /\ nextMsg = 1
    /\ jobs = [slot \in JobSlots |-> NoJob]
    /\ lastReturn = NoReturn
    /\ session_meta = 1 /\ meta_row = NoSession /\ next_id = 2
    /\ cmdResult = NoCommand
    /\ serverResponse = <<ContentLine(<<"H">>), StopLine>>
    /\ hm_messages \in InitialHistories
    /\ hm_system_prompt = NoPrompt /\ hm_summary = <<>>
    /\ _last_summarized_index = -1
    /\ prompt = <<"hi">>
    /\ chatPc = "idle" /\ historyBefore = <<>> /\ chatData = <<>>
    /\ chatThinking = <<>> /\ chatContent = <<>> /\ chatRequests = 0
    /\ chatFailed = FALSE /\ chatMessages = <<>> /\ console = <<>>
    /\ _summary_task = NoSummaryTask
    /\ _history_task = [state |-> "saving", save |-> SaveOpens]
    /\ historyFile = EmptyFile
    /\ quitPc = [state |-> "none", save |-> NoSave]
    /\ exitCode = NotExited

\* Line 76 of start(): the input read at the prompt is sent.
ChatTurn ==
    /\ Running
    /\ quitPc.state = "none"
    /\ chatRequests < MaxTurns
    /\ ChatSend

ChatNext ==
    \/ ChatTurn
    \/ \E n \in 1..MaxLines : ChatReadData(n)
    \/ ChatStreamEnds
    \/ ChatStreamFails
    \/ _create_summary_task
    \/ _summarize
    \/ SummarizeReturns
    \/ SummarizeFails
    \/ SummarizeRaises
    \/ _set_interval
    \/ IntervalWrites
    \/ IntervalCloses
    \/ IntervalSleeps
    \/ _quit
    \/ QuitWrites
    \/ QuitCloses
    \/ QuitExits

ChatSpec == ChatInit /\ [][ChatNext]_vars

\* The prompt loop with /clear_history between the turns: the history
\* starts empty or with one earlier turn, nothing summarized, no save due.
ClearInit ==
    /\ MergeIdle /\ ToolIdle /\ TaskIdle /\ StreamIdle
    /\ ChatBackgroundIdle
    /\ session = Session(1)
    /\ repo = [id \in {1} |-> Session(1)]
    /\ max_history_turns \in 0..MaxWindow
    /\ nextMsg = 1
    /\ jobs = [slot \in JobSlots |-> NoJob]
    /\ lastReturn = NoReturn
    /\ session_meta = 1 /\ meta_row = NoSession /\ next_id = 2
    /\ cmdResult = NoCommand
    /\ serverResponse = <<ContentLine(<<"H">>), StopLine>>
    /\ hm_messages \in InitialHistories
    /\ hm_system_prompt = NoPrompt /\ hm_summary = <<>>
    /\ _last_summarized_index = -1
    /\ prompt = <<"hi">>
    /\ chatPc = "idle" /\ historyBefore = <<>> /\ chatData = <<>>
    /\ chatThinking = <<>> /\ chatContent = <<>> /\ chatRequests = 0
    /\ chatFailed = FALSE /\ chatMessages = <<>> /\ console = <<>>

ClearNext ==
    \/ ChatTurn
    \/ \E n \in 1..MaxLines : ChatReadData(n)
    \/ ChatStreamEnds
    \/ _create_summary_task
    \/ _summarize
    \/ SummarizeReturns
    \/ SummarizeFails
    \/ Chat_clear_history

ClearSpec == ClearInit /\ [][ClearNext]_vars

\* Responses to the requests after the first of a turn.
FollowUpResponses ==
    { <<>>, <<ContentLine(<<"H">>), StopLine>>, <<ToolCallLine, DoneLine>>,
      <<ErrorLine(<<"boom">>)>> }

\* Rounds of stream_completion: the first request is answered by any
\* response, the later ones by one of FollowUpResponses.
StreamSend ==
    SendRequest(IF requestsSent = 0 THEN Responses ELSE FollowUpResponses, MaxRounds)

StreamNext ==
    \/ StreamSend
    \/ ReadLine
    \/ EndOfStream
    \/ PostStream
    \/ CallTools
    \/ \E i \in 1..Len(toolCalls) : ToolBegin(i)
    \/ \E i \in 1..Len(toolCalls) : ToolEnd(i)
    \/ GatherDone
    \/ ToolsReturned
    \/ ExtendMessages

StreamSpec == RoundsInit /\ [][StreamNext]_vars

\* Lines of a response that carries out-of-band error lines of every form:
\* a message, an empty message, text that is not JSON.
ErrorResponseLines ==
    { ContentLine(<<"H">>), StopLine, ToolCallLine,
      ErrorLine(<<"boom">>), ErrorLine(<<>>), ErrorTextLine }

ErrorResponses == UNION { [1..n -> ErrorResponseLines] : n \in 0..MaxLines }

ErrorsSend ==
    SendRequest(IF requestsSent = 0 THEN ErrorResponses ELSE FollowUpResponses,
                MaxRounds)

ErrorsNext ==
    \/ ErrorsSend
    \/ ReadLine
    \/ EndOfStream
    \/ PostStream
    \/ CallTools
    \/ \E i \in 1..Len(toolCalls) : ToolBegin(i)
    \/ \E i \in 1..Len(toolCalls) : ToolEnd(i)
    \/ GatherDone
    \/ ToolsReturned
    \/ ExtendMessages

ErrorsSpec == RoundsInit /\ [][ErrorsNext]_vars

\* ------------------------------------------------------------------------
\* Properties of stream_completion
\* ------------------------------------------------------------------------
\* The bound on rounds the specification gives stream_completion.
max_rounds == 8

\* C1: when every response carries a complete tool call and no finish_reason
\* "stop", the turn ends with an error after exactly max_rounds requests, and
\* no request beyond the max_rounds-th is sent.
C1_RoundBound ==
    /\ requestsSent <= max_rounds
    /\ streamPc \in {"returned", "raised"} =>
          /\ requestsSent = max_rounds
          /\ events # <<>>
          /\ events[Len(events)].type = "error"

\* ------------------------------------------------------------------------
\* Properties of the summarization job
\* ------------------------------------------------------------------------
\* The end of the slice to summarize for a history of n messages and a
\* window of W turns: the last 2W messages are kept when W > 0.
Boundary(n, W) == IF W > 0 THEN n - 2 * W ELSE n

\* C7: after a windowed create_summary call that returned without raising,
\* last_summarized_index is len(H) - 1 - 2W when W > 0 and len(H) - 1
\* otherwise, H being the history when the call started; stated for the
\* calls that had messages to summarize before that boundary.
C7_IndexAfterSummary ==
    (/\ lastReturn.slot = "background"
     /\ lastReturn.outcome \in {"summarized", "nothing_to_do"}
     /\ lastReturn.job.since + 1 < Boundary(lastReturn.job.length, lastReturn.job.window))
    => lastReturn.indexAfter =
           Boundary(lastReturn.job.length, lastReturn.job.window) - 1

\* C8: no create_summary call, foreground or background, ends with
\* last_summarized_index lower than it was just before the call ended.
C8_IndexNeverDecreases ==
    lastReturn.outcome # "none" => lastReturn.indexAfter >= lastReturn.indexBefore

\* C9: in every reachable state last_summarized_index < len(history).
C9_IndexBelowLength ==
    session.last_summarized_index < Len(session.history)

\* C10: a create_summary call that raises leaves summary and
\* last_summarized_index as they were.
C10_FailureChangesNothing ==
    lastReturn.outcome = "raised" =>
        /\ lastReturn.summaryAfter = lastReturn.summaryBefore
        /\ lastReturn.indexAfter = lastReturn.indexBefore

\* The slice history[last_summarized_index + 1 : boundary] of a call is
\* empty; the boundary is end_index when one is given.
SliceEmpty(job) ==
    job.since + 1 >= (IF job.end_index # NoEndIndex
                      THEN Min(job.end_index, job.length)
                      ELSE Boundary(job.length, job.window))

\* C11: a create_summary call whose slice of history to summarize is empty
\* sends no completion request and leaves summary and
\* last_summarized_index unchanged.
C11_EmptySliceNoOp ==
    /\ [][\A slot \in {"background", "command"} :
             (~jobs[slot].active /\ jobs'[slot].active) => ~SliceEmpty(jobs'[slot])]_vars
    /\ [][(lastReturn' # lastReturn /\ lastReturn'.outcome = "nothing_to_do")
           => (session' = session /\ repo' = repo /\ jobs' = jobs)]_vars

\* A call on a history whose messages are all summarized already, and a
\* windowed call on a history shorter than the window, returned at once.
C11_Witness ==
    /\ lastReturn.outcome = "nothing_to_do"
    /\ lastReturn.job.length > 0
    /\ \/ lastReturn.job.since = lastReturn.job.length - 1
       \/ (lastReturn.job.window > 0 /\ lastReturn.job.length < 2 * lastReturn.job.window)

\* ------------------------------------------------------------------------
\* Properties of the task coordinator
\* ------------------------------------------------------------------------
Unfinished(set) == { t \in set : tasks[t].state # "finished" }

\* C2: create_task with exclusive=True cancels every unfinished task
\* registered under the name before it starts the new one, and the registry
\* never holds two unfinished tasks for a name that is only ever scheduled
\* exclusively.
C2_ExclusiveReplaces ==
    /\ [](\A n \in TaskNames \ nonExclusive : Cardinality(Unfinished(_tasks[n])) <= 1)
    /\ [][(/\ Len(tasks') = Len(tasks) + 1
            /\ tasks'[Len(tasks')].exclusive)
           => LET n == tasks'[Len(tasks')].name
              IN  /\ \A t \in Unfinished(_tasks[n]) : tasks'[t].state = "cancelling"
                  /\ _tasks'[n] = {Len(tasks')}]_vars

\* An exclusive task was scheduled while the previous one of its name was
\* still running: the previous one is being cancelled and only the new one
\* is registered.
C2_Witness ==
    \E n \in TaskNames \ nonExclusive :
        \E t1, t2 \in 1..Len(tasks) :
            /\ t1 < t2
            /\ tasks[t1].name = n /\ tasks[t2].name = n
            /\ tasks[t1].state = "cancelling"
            /\ tasks[t2].state = "pending"
            /\ _tasks[n] = {t2}

\* ------------------------------------------------------------------------
\* Properties of exec_tool_calls
\* ------------------------------------------------------------------------
FailingCall(i) ==
    \/ toolCalls[i].name \notin _TOOLS
    \/ json_loads(toolCalls[i].arguments) = "JSONDecodeError"
    \/ toolOutcome[i] = "raised"

\* C5: a call that names an unknown tool, carries arguments that do not
\* parse as JSON, or whose tool raises yields a tool message whose content
\* begins with Error:, every other call yields what its tool returned, and
\* exec_tool_calls never raises.
C5_FailuresIsolated ==
    /\ execPc # "raised"
    /\ execPc = "returned" =>
          \A i \in 1..Len(toolCalls) :
              /\ i \in DOMAIN execResult
              /\ execResult[i].role = "tool"
              /\ IF FailingCall(i)
                 THEN /\ execResult[i].content # <<>>
                      /\ Head(execResult[i].content) = "Error:"
                 ELSE execResult[i].content = toolOutcome[i]

\* Three calls, the second of which raised inside its tool while the first
\* and the third returned.
C5_Witness ==
    /\ execPc = "returned"
    /\ Len(toolCalls) = 3
    /\ toolOutcome[2] = "raised"
    /\ json_loads(toolCalls[2].arguments) = "kwargs"
    /\ ~FailingCall(1) /\ ~FailingCall(3)
    /\ execResult[1].content = toolOutcome[1]
    /\ execResult[3].content = toolOutcome[3]

\* C6: exec_tool_calls returns one message per input call, the i-th carrying
\* the tool_call_id of the i-th call, whatever the completion order.
C6_ResultsInInputOrder ==
    execPc = "returned" =>
        /\ Len(execResult) = Len(toolCalls)
        /\ \A i \in 1..Len(toolCalls) :
               execResult[i].tool_call_id = toolCalls[i].id

\* The calls completed in an order other than the input order.
C6_Witness ==
    /\ execPc = "returned"
    /\ Len(toolCalls) >= 2
    /\ \E k \in 1..(Len(completed) - 1) :
           /\ completed[k] > completed[k + 1]
           /\ toolCalls[completed[k]].id # toolCalls[completed[k + 1]].id

\* ------------------------------------------------------------------------
\* Properties of _merge_tool_calls
\* ------------------------------------------------------------------------
RECURSIVE Flatten(_)
Flatten(ss) == IF ss = <<>> THEN <<>> ELSE Head(ss) \o Flatten(Tail(ss))

IdFrags(frs, i)   == SelectSeq(frs, LAMBDA f : f.index = i /\ Truthy(f.id))
NameFrags(frs, i) == SelectSeq(frs, LAMBDA f : f.index = i /\ f.name # <<>>)
ArgFrags(frs, i)  == SelectSeq(frs, LAMBDA f : f.index = i /\ f.arguments # <<>>)

SlotCount(frs) ==
    IF frs = <<>> THEN 0
    ELSE 1 + CHOOSE m \in 0..MaxIndex + 1 :
                 /\ \E k \in 1..Len(frs) : frs[k].index = m
                 /\ \A k \in 1..Len(frs) : frs[k].index <= m

\* What a slot is expected to hold, stated from the fragments alone.
ExpectedSlot(frs, i) ==
    LET ids == IdFrags(frs, i)
    IN  [id        |-> IF ids = <<>> THEN None ELSE ids[Len(ids)].id,
         type      |-> "function",
         name      |-> Flatten([k \in 1..Len(NameFrags(frs, i)) |-> NameFrags(frs, i)[k].name]),
         arguments |-> Flatten([k \in 1..Len(ArgFrags(frs, i)) |-> ArgFrags(frs, i)[k].arguments])]

NameArgOrderKept ==
    \A i \in 0..MaxIndex + 1 :
        /\ NameFrags(mergeIn, i) = NameFrags(mergeIn2, i)
        /\ ArgFrags(mergeIn, i) = ArgFrags(mergeIn2, i)

IdOrderKept ==
    \A i \in 0..MaxIndex + 1 : IdFrags(mergeIn, i) = IdFrags(mergeIn2, i)

\* C3: the list returned by _merge_tool_calls contains only slots that
\* acquired a non-empty id; a slot that never received one is absent.
C3_OnlySlotsWithId ==
    mergePc = "merged" =>
        \A k \in 1..Len(mergeOut) : Truthy(mergeOut[k].id)

ContentDelta(line) ==
    IF line.prefix = "data: " /\ line.form = "object" /\ line.choices # <<>>
    THEN line.choices[1].delta.content ELSE <<>>
ThinkingDelta(line) ==
    IF line.prefix = "data: " /\ line.form = "object" /\ line.choices # <<>>
    THEN line.choices[1].delta.reasoning_content ELSE <<>>

ContentDeltas(lines)  == Flatten([k \in 1..Len(lines) |-> ContentDelta(lines[k])])
ThinkingDeltas(lines) == Flatten([k \in 1..Len(lines) |-> ThinkingDelta(lines[k])])

\* The payloads of the events of one type, concatenated in emission order.
EventText(evs, type) ==
    LET of_type == SelectSeq(evs, LAMBDA e : e.type = type)
    IN  Flatten([k \in 1..Len(of_type) |-> of_type[k].data])

\* A response of content deltas d1..dn, n >= 1, then finish_reason "stop",
\* then possibly [DONE].
IsContentLine(line) ==
    /\ ContentDelta(line) # <<>>
    /\ line.choices[1].finish_reason = None
    /\ line.choices[1].delta.tool_calls = <<>>
    /\ line.choices[1].delta.reasoning_content = <<>>
ContentThenStop(lines) ==
    \E n \in 1..Len(lines) :
        /\ \A k \in 1..n : IsContentLine(lines[k])
        /\ \/ SubSeq(lines, n + 1, Len(lines)) = <<StopLine>>
           \/ SubSeq(lines, n + 1, Len(lines)) = <<StopLine, DoneLine>>

Consumed == SubSeq(response, 1, Len(response) - Len(stream))

\* A line whose finish_reason is neither null nor "stop".
OtherFinish(line) ==
    /\ line.prefix = "data: " /\ line.form = "object" /\ line.choices # <<>>
    /\ line.choices[1].finish_reason \notin {None, "stop"}

\* C13: once a line with a finish_reason other than "stop" was read, the
\* round is over (no line is read after it) and an error event carrying
\* the reason was emitted.
C13_OtherFinishReasonIsError ==
    \A k \in 1..Len(Consumed) :
        OtherFinish(Consumed[k]) =>
            /\ k = Len(Consumed)
            /\ \E e \in 1..Len(events) :
                   /\ events[e].type = "error"
                   /\ Consumed[k].choices[1].finish_reason \in Range(events[e].data)

\* The fragments of tool calls the lines carry.
ToolCallDeltas(lines) ==
    Flatten([k \in 1..Len(lines) |->
                IF lines[k].prefix = "data: " /\ lines[k].form = "object"
                   /\ lines[k].choices # <<>>
                THEN lines[k].choices[1].delta.tool_calls ELSE <<>>])

\* The line is [DONE] or carries finish_reason "stop".
EndsStream(line) ==
    /\ line.prefix = "data: "
    /\ \/ line.form = "[DONE]"
       \/ (line.form = "object" /\ line.choices # <<>>
           /\ line.choices[1].finish_reason = "stop")

\* The stream of the current round has ended, and it delivered no text, no
\* tool calls, no error line, no [DONE] and no finish_reason "stop".
EmptyRoundEnded ==
    /\ requestsSent >= 1
    /\ stream = <<>>
    /\ streamPc \notin {"read", "merge"}
    /\ ContentDeltas(response) = <<>>
    /\ ThinkingDeltas(response) = <<>>
    /\ ToolCallDeltas(response) = <<>>
    /\ \A k \in 1..Len(response) :
           ~EndsStream(response[k]) /\ response[k].prefix # "error: "

\* C14: when a round's stream ends having delivered nothing and without
\* [DONE] or "stop", stream_completion ends the turn with an error event:
\* it does not go on to send the request again.
C14_EmptyStreamIsError ==
    EmptyRoundEnded =>
        /\ streamPc = "returned"
        /\ events # <<>>
        /\ events[Len(events)].type = "error"

\* An error event was emitted in this turn.
ErrorEmitted == \E k \in 1..Len(events) : events[k].type = "error"

\* C15: once an error event was emitted, no further event is emitted, no
\* tool is executed and no further request is sent in that turn.
C15_ErrorEndsTurn ==
    [][ErrorEmitted =>
          /\ events' = events
          /\ requestsSent' = requestsSent
          /\ execPc' = execPc
          /\ toolState' = toolState]_vars

\* A `data:` line whose payload does not parse as JSON.
NotJson(line) == line.prefix = "data: " /\ line.form = "garbage"

\* The lines of the chunk Chat._process is given in a step.
ChunkRead == SubSeq(chatData, 1, Len(chatData) - Len(chatData'))

\* C16: reading a `data:` line whose payload is not JSON changes nothing but
\* the position in the stream: no event, no end of the stream, no change to
\* what was accumulated, so the lines after it are processed as if it had
\* not been there; Chat._process gives the result it gives for the chunk
\* without such lines.
C16_UnparsableLineSkipped ==
    /\ [][(streamPc = "read" /\ stream # <<>> /\ NotJson(Head(stream))) =>
             /\ stream' = Tail(stream)
             /\ streamPc' = "read"
             /\ events' = events
             /\ tool_calls' = tool_calls
             /\ finished' = finished
             /\ messages' = messages
             /\ requestsSent' = requestsSent]_vars
    /\ [][(chatPc = "stream" /\ chatData' # chatData) =>
             <<chatThinking', chatContent'>> =
                 _process(SelectSeq(ChunkRead, LAMBDA l : ~NotJson(l)),
                          chatThinking, chatContent)]_vars

\* A line that is not JSON was read and the content delta after it was
\* emitted and accumulated.
C16_Witness ==
    /\ \E k \in 1..Len(Consumed) :
           /\ NotJson(Consumed[k])
           /\ k < Len(Consumed)
           /\ ContentDelta(Consumed[k + 1]) # <<>>
    /\ EventText(events, "content") = ContentDeltas(Consumed)
    /\ chatContent = ContentDeltas(serverResponse)
    /\ chatContent # <<>>

\* The lines of the response aiter_bytes has delivered to the turn of Chat.
Delivered == SubSeq(serverResponse, 1, Len(serverResponse) - Len(chatData))

\* The lines before the first [DONE] line, or all of them without one.
RECURSIVE BeforeDone(_)
BeforeDone(lines) ==
    IF lines = <<>> THEN <<>>
    ELSE IF Head(lines) = DoneLine THEN <<>>
    ELSE <<Head(lines)>> \o BeforeDone(Tail(lines))

\* C17: after a `data: [DONE]` line no later line of the stream is
\* processed: stream_completion reads no line after it, and what Chat has
\* accumulated as thinking and content comes from the lines before it.
C17_NothingAfterDone ==
    /\ \A k \in 1..Len(Consumed) : Consumed[k] = DoneLine => k = Len(Consumed)
    /\ chatPc # "idle" =>
          /\ chatContent = ContentDeltas(BeforeDone(Delivered))
          /\ chatThinking = ThinkingDeltas(BeforeDone(Delivered))

\* ------------------------------------------------------------------------
\* Properties of the tool rounds of stream_completion
\* ------------------------------------------------------------------------
\* C18: when a round with complete tool calls is over and the next request
\* is about to be sent, the running message list is the one sent with the
\* round's request plus one assistant message with content null carrying
\* the tool calls, followed by one tool message per call, in the order of
\* the calls, whose tool_call_id is the call's id.
C18_RoundAppendsCallsAndResults ==
    (streamPc = "send" /\ requestsSent >= 1 /\ tool_calls_complete # <<>>) =>
        LET n == Len(tool_calls_complete)
            gained == SubSeq(messages, Len(requestBody) + 1, Len(messages))
        IN  /\ Len(messages) = Len(requestBody) + 1 + n
            /\ SubSeq(messages, 1, Len(requestBody)) = requestBody
            /\ gained[1] = [role |-> "assistant", content |-> NoContent,
                            tool_calls |-> tool_calls_complete]
            /\ \A k \in 1..n :
                   /\ gained[k + 1].role = "tool"
                   /\ gained[k + 1].tool_call_id = tool_calls_complete[k].id

\* A round with two tool calls is over.
C18_Witness ==
    /\ streamPc = "send" /\ requestsSent >= 1
    /\ Len(tool_calls_complete) = 2
    /\ tool_calls_complete[1].id = "c1"
    /\ tool_calls_complete[2].id = "c2"
    /\ Len(messages) = Len(requestBody) + 3

\* C19: while the round is current, the tool_complete event of a round with
\* N tool calls is emitted
\* after the N tool_call events, after the tools ran and after their tool
\* messages were appended to the running message list, and reports N.
C19_ToolCompleteAfterResults ==
    (/\ streamPc \in {"extend", "send"}
     /\ tool_calls_complete # <<>>
     /\ events # <<>> /\ events[Len(events)].type = "tool_complete") =>
        LET n == Len(tool_calls_complete)
        IN  /\ events[Len(events)].data[1] = n
            /\ Len(events) > n
            /\ \A k \in 1..n : events[Len(events) - k].type = "tool_call"
            /\ \A k \in 1..n : toolState[k] = "done"
            /\ Len(messages) >= n
            /\ SubSeq(messages, Len(messages) - n + 1, Len(messages)) = execResult

\* ------------------------------------------------------------------------
\* Properties of the thinking and content events
\* ------------------------------------------------------------------------
\* The events a step added.
NewEvents == SubSeq(events', Len(events) + 1, Len(events'))

\* The events a line with the deltas t and c is to produce: the thinking
\* delta, then the content delta, each only when not empty.
DeltaEvents(t, c) ==
    (IF t # <<>> THEN <<[type |-> "thinking", data |-> t]>> ELSE <<>>)
        \o (IF c # <<>> THEN <<[type |-> "content", data |-> c]>> ELSE <<>>)

\* C20: the step that reads a line emits, before the next line is read, the
\* thinking and content events carrying exactly the deltas of that line and
\* no other step emits such events; within the first round the payloads of
\* the content events, concatenated in emission order, are the content
\* deltas of the lines read, in arrival order, and likewise for thinking.
C20_EventsAreTheDeltas ==
    /\ [][IF streamPc = "read" /\ stream # <<>>
          THEN /\ stream' = Tail(stream)
               /\ SubSeq(events', 1, Len(events)) = events
               /\ SelectSeq(NewEvents, LAMBDA e : e.type \in {"thinking", "content"})
                      = DeltaEvents(ThinkingDelta(Head(stream)), ContentDelta(Head(stream)))
          ELSE /\ EventText(events', "content") = EventText(events, "content")
               /\ EventText(events', "thinking") = EventText(events, "thinking")]_vars
    /\ [](requestsSent = 1 =>
             /\ EventText(events, "content") = ContentDeltas(Consumed)
             /\ EventText(events, "thinking") = ThinkingDeltas(Consumed))

\* A round in which a content delta, then a line with a thinking and a
\* content delta and finish_reason "stop" were read and emitted.
C20_Witness ==
    /\ requestsSent = 1
    /\ streamPc = "returned"
    /\ Len(EventText(events, "content")) = 2
    /\ EventText(events, "content") = ContentDeltas(Consumed)
    /\ EventText(events, "thinking") # <<>>
    /\ events[Len(events)].type = "content"

\* ------------------------------------------------------------------------
\* Properties of a round's tool calls
\* ------------------------------------------------------------------------
\* Call i is the next one the event loop starts.
NextToStart(i) ==
    /\ toolState[i] = "created"
    /\ \A j \in 1..(i - 1) : toolState[j] # "created"

\* C21: while the calls of a round are gathered, the next call to start can
\* start whatever the calls started before it are doing (a call that has
\* not returned does not hold back the start of the others), and a request
\* that follows a round with tool calls is sent only when every call of
\* that round has returned its message.
C21_ToolsStartTogether ==
    /\ [](execPc = "gathering" =>
            \A i \in 1..Len(toolCalls) : NextToStart(i) => ENABLED ToolBegin(i))
    /\ [][(requestsSent' = requestsSent + 1 /\ tool_calls_complete # <<>>)
           => /\ toolCalls = tool_calls_complete
              /\ execPc = "idle"
              /\ \A i \in 1..Len(toolCalls) :
                     /\ toolState[i] = "done"
                     /\ toolResults[i].role = "tool"]_vars

\* The second request of a turn has been sent after a round of two calls in
\* which the second call returned while the first was still awaited.
C21_Witness ==
    /\ requestsSent = 2
    /\ Len(toolCalls) = 2
    /\ completed = <<2, 1>>
    /\ toolOutcome[1] # "not_called"

\* ------------------------------------------------------------------------
\* Properties of the registry of the task coordinator
\* ------------------------------------------------------------------------
\* The tasks created under a name that have not finished.
Live(n) == { t \in 1..Len(tasks) : tasks[t].name = n /\ tasks[t].state # "finished" }

\* C22: at any time the tasks registered under a name are exactly the tasks
\* of that name that have not finished, whatever their mode and whether they
\* end by returning, by raising or by cancellation.
C22_RegistryIsUnfinished ==
    \A n \in TaskNames : _tasks[n] = Live(n)

Registered == UNION { _tasks[n] : n \in TaskNames }

\* C23: cancel_all requests the cancellation of every registered task that
\* has not finished, touches no other task and leaves the registry empty;
\* called on an empty registry (a second time, or before the done callbacks
\* of the cancelled tasks have run) it changes nothing, and a done callback
\* that runs while the registry is empty raises nothing.
C23_CancelAllIdempotent ==
    /\ [][cancel_all =>
            /\ \A n \in TaskNames : _tasks'[n] = {}
            /\ \A t \in 1..Len(tasks) :
                   tasks'[t] = IF t \in Registered /\ tasks[t].state = "pending"
                               THEN [tasks[t] EXCEPT !.state = "cancelling"]
                               ELSE tasks[t]
            /\ Len(tasks') = Len(tasks)
            /\ Registered = {} => UNCHANGED taskVars]_vars
    /\ [][Registered = {} => callbackErrors' = callbackErrors]_vars

\* The registry is empty while two tasks of different names, an interval
\* task among them, have their cancellation requested and have not run
\* since: the state cancel_all leaves, and in which it can be called again.
C23_Witness ==
    /\ Registered = {}
    /\ \E t1, t2 \in 1..Len(tasks) :
           /\ tasks[t1].name # tasks[t2].name
           /\ tasks[t1].state = "cancelling"
           /\ tasks[t2].state = "cancelling"
           /\ tasks[t1].interval

\* C24: an interval task ends only by cancellation: after every run of its
\* job, also one that raised, it goes on to sleep and to the next run.
C24_IntervalSurvivesFailure ==
    \A t \in 1..Len(tasks) :
        (tasks[t].interval /\ tasks[t].state = "finished")
            => tasks[t].result = "cancelled"

\* ------------------------------------------------------------------------
\* Properties of a turn whose transport fails
\* ------------------------------------------------------------------------
\* C27: a turn whose request timed out or lost its connection, before or
\* after deltas arrived, ends with the history extended by the user message
\* and by nothing else.
C27_FailedTurnAddsOnlyUser ==
    (chatPc = "done" /\ chatFailed)
        => hm_messages = Append(historyBefore, Message("user", prompt))

\* ------------------------------------------------------------------------
\* Properties of a cancelled summarization job
\* ------------------------------------------------------------------------
\* C26: the step that cancels a create_summary call suspended in its
\* completion request changes neither the session nor its row, and every
\* step that changes summary or last_summarized_index is a clear of the
\* history or the return of a completion, which writes the summary and the
\* index of its call together.
C26_CancelLeavesSummaryWhole ==
    /\ [][(/\ jobs["background"].active /\ ~jobs'["background"].active
            /\ lastReturn'.outcome = "cancelled")
           => (session' = session /\ repo' = repo)]_vars
    /\ [][(\/ session'.summary # session.summary
            \/ session'.last_summarized_index # session.last_summarized_index)
           => \/ (session'.summary = {} /\ session'.last_summarized_index = -1)
              \/ \E slot \in {"background", "command"} :
                    /\ jobs[slot].active /\ ~jobs'[slot].active
                    /\ session'.summary =
                           jobs[slot].previous \cup Range(jobs[slot].slice)
                    /\ session'.last_summarized_index =
                           jobs[slot].start_index + Len(jobs[slot].slice) - 1
                    /\ session'.last_summarized_index > jobs[slot].since]_vars

\* A background call with messages to summarize was cancelled while its
\* request was in flight; summary and index are those the call started from.
C26_Witness ==
    /\ lastReturn.outcome = "cancelled"
    /\ lastReturn.job.slice # <<>>
    /\ session.summary = lastReturn.job.previous
    /\ session.last_summarized_index = lastReturn.job.since
    /\ session.history # <<>>

\* ------------------------------------------------------------------------
\* Properties of the sessions of the store
\* ------------------------------------------------------------------------
\* C28: the current session always has its row in the store, and a
\* /delete-session command for the id of the current session ends with an
\* error and leaves the store, the current session and the meta record as
\* they were, whatever sessions were created and switched to before.
C28_CurrentSessionNotDeleted ==
    /\ [](session.id \in DOMAIN repo)
    /\ [][(/\ cmdResult' # cmdResult
            /\ cmdResult'.cmd = "delete-session"
            /\ cmdResult'.arg = session.id)
           => /\ cmdResult'.outcome = "ValueError"
              /\ repo' = repo
              /\ session' = session
              /\ session_meta' = session_meta]_vars

\* After sessions were created and an older one was switched to, the
\* deletion of that current session was refused.
C28_Witness ==
    /\ cmdResult = Command("delete-session", session.id, "ValueError")
    /\ Cardinality(DOMAIN repo) >= 2
    /\ session.id < next_id - 1
    /\ session.history # <<>>

\* ------------------------------------------------------------------------
\* C30: the request context built for a prompt is one system message if
\* and only if the system prompt or the summary is not empty, its content
\* the system prompt followed by the summary suffix; then the history
\* messages with index greater than last_summarized_index, in their order;
\* then the user's prompt as the last message.
\* ------------------------------------------------------------------------
C30_ContextInOrder ==
    [][chatRequests' = chatRequests + 1 =>
        LET promptText == IF hm_system_prompt = NoPrompt THEN <<>>
                          ELSE hm_system_prompt
            hasSystem == promptText # <<>> \/ hm_summary # <<>>
            off == IF hasSystem THEN 1 ELSE 0
            first == _last_summarized_index + 1
            kept == Len(hm_messages) - first
        IN  /\ Len(chatMessages') = off + kept + 1
            /\ hasSystem =>
                 /\ chatMessages'[1].role = "system"
                 /\ chatMessages'[1].content =
                        promptText \o (IF hm_summary # <<>>
                                       THEN <<SummaryIntro>> \o hm_summary
                                       ELSE <<>>)
            /\ \A k \in 1..Len(chatMessages') :
                 chatMessages'[k].role = "system" => (hasSystem /\ k = 1)
            /\ \A k \in 1..kept : chatMessages'[off + k] = hm_messages[first + k]
            /\ chatMessages'[Len(chatMessages')] = Message("user", prompt)]_vars

\* A context was built with a system prompt and a summary, from a history
\* of which a summarized prefix was left out and the rest was sent.
C30_Witness ==
    /\ chatRequests > 0
    /\ hm_system_prompt = <<"s">> /\ hm_summary # <<>>
    /\ _last_summarized_index >= 0
    /\ Len(historyBefore) > _last_summarized_index + 1
    /\ Len(chatMessages) = Len(historyBefore) - _last_summarized_index + 1

\* ------------------------------------------------------------------------
\* C29: on quit every background task is cancelled and the current
\* conversation is written to the store before the process exits with
\* code 0, and no background job runs between the final write and the exit.
\* ------------------------------------------------------------------------
\* The tasks of the loop are cancelled or have finished.
TasksStopped ==
    /\ _history_task.state = "cancelled"
    /\ _summary_task.state \in {"none", "done", "cancelled"}

\* _quit has called f.write with the final dump and has not exited yet.
FinalWriteDone ==
    quitPc.state = "saving" /\ quitPc.save.pc \in {"write", "close"}

C29_QuitSavesThenExits ==
    /\ [](exitCode # NotExited =>
            exitCode = 0 /\ TasksStopped /\ historyFile = Dump)
    /\ [][FinalWriteDone => quitPc' # quitPc]_vars

\* ------------------------------------------------------------------------
\* C25: an exception raised by a background job is captured by the
\* coordinator and reported to the user exactly once, at the next
\* scheduling attempt of that job, and is then cleared.
\* ------------------------------------------------------------------------
\* The tasks of job n that ended with an exception of the job.
Failures(n) ==
    { t \in 1..Len(tasks) :
        tasks[t].name = n /\ tasks[t].state = "finished"
            /\ tasks[t].result = "exception" }

\* At the end of a scheduling attempt of job n every earlier failure of n
\* has been shown to the user, and no failure is ever shown twice.
C25_FailureReportedAtNextSchedule ==
    [][\A n \in TaskNames :
          (Len(tasks') = Len(tasks) + 1 /\ tasks'[Len(tasks')].name = n)
              => /\ Len(console') >= Cardinality(Failures(n))
                 /\ Len(console') <=
                        Cardinality(UNION { Failures(m) : m \in TaskNames })]_vars

\* ------------------------------------------------------------------------
\* C31: after clear_session the current session has an empty history, an
\* empty summary, an empty system prompt and last_summarized_index -1,
\* whatever it held before.
\* ------------------------------------------------------------------------
C31_ClearSessionEmpties ==
    [][(cmdResult' # cmdResult /\ cmdResult'.cmd = "clear_session")
        => /\ session'.history = <<>>
           /\ session'.summary = {}
           /\ session'.system_prompt = <<>>
           /\ session'.last_summarized_index = -1
           /\ session'.id = session.id]_vars

\* clear_session has just emptied a session of which messages had been
\* summarized, and nothing of it is left, in memory or in its row.
C31_Witness ==
    /\ cmdResult.cmd = "clear_session"
    /\ lastReturn.outcome = "summarized"
    /\ lastReturn.summaryAfter # {}
    /\ nextMsg > 2
    /\ session = Session(session.id)
    /\ repo[session.id] = session

\* ------------------------------------------------------------------------
\* C32: the history of a session is append-only.  add_to_history makes it
\* the old history followed by the new message, and nothing but an explicit
\* clear removes, reorders or modifies an entry, in memory or in the row of
\* the session: not a summarization and not a title job.  Another session
\* becoming the current one leaves the history of the previous one in its
\* row.
\* ------------------------------------------------------------------------
C32_HistoryAppendOnly ==
    /\ [][nextMsg' # nextMsg =>
            /\ session'.history = Append(session.history, nextMsg)
            /\ Len(session'.history) = Len(session.history) + 1
            /\ repo'[session.id].history = session'.history]_vars
    /\ [][(session'.id = session.id /\ session'.history # session.history) =>
            \/ /\ nextMsg' = nextMsg + 1
               /\ SubSeq(session'.history, 1, Len(session.history)) = session.history
            \/ clear_history
            \/ clear_session]_vars
    /\ [][\A id \in DOMAIN repo \cap DOMAIN repo' :
            repo'[id].history # repo[id].history =>
                \/ /\ nextMsg' = nextMsg + 1
                   /\ SubSeq(repo'[id].history, 1, Len(repo[id].history))
                          = repo[id].history
                \/ clear_history
                \/ clear_session]_vars
    /\ [][session'.id # session.id =>
            /\ repo'[session.id].history = session.history
            /\ session'.history = repo'[session'.id].history]_vars

\* All the messages added are in the history in the order they were added,
\* after some of them were summarized and a title was generated.
C32_Witness ==
    /\ Len(session.history) >= 3
    /\ \A k \in 1..Len(session.history) : session.history[k] = k
    /\ session.summary # {}
    /\ session.last_summarized_index >= 0
    /\ session.title = GeneratedTitle
    /\ repo[session.id].history = session.history

\* ------------------------------------------------------------------------
\* C33: the result of a background job goes only to the session that was
\* current when the job started: when another session has become current
\* while the request of create_summary or generate_title was in flight, the
\* job leaves summary, last_summarized_index and title of that session
\* unchanged.
\* ------------------------------------------------------------------------
C33_JobLeavesOtherSessionAlone ==
    [][\A slot \in {"background", "title"} :
          (/\ jobs[slot].active
           /\ ~jobs'[slot].active
           /\ jobs[slot].session_id # session.id)
              => /\ session'.summary = session.summary
                 /\ session'.last_summarized_index = session.last_summarized_index
                 /\ session'.title = session.title
                 /\ repo'[session.id] = repo[session.id]]_vars

\* ------------------------------------------------------------------------
\* C34: after any sequence of create_session, switch_session,
\* delete_session and flush, the latest_session_id of the meta record in
\* the store names a session that exists in the store.
\* ------------------------------------------------------------------------
C34_MetaNamesStoredSession ==
    meta_row # NoSession => meta_row \in DOMAIN repo

\* C35: when the done callback of a task runs after the task left the
\* registry (an exclusive create_task replaced it, or cancel(name) was
\* followed by a new create_task of the same name) while a newer task of
\* the name is registered, the callback raises no error and the registry
\* is left as it was, holding the newer task.
C35_LateCallbackIsSilent ==
    [][\A t \in callbacks :
          (/\ _remove_task(t)
           /\ t \notin _tasks[tasks[t].name]
           /\ _tasks[tasks[t].name] # {})
             => /\ callbackErrors' = callbackErrors
                /\ _tasks' = _tasks]_vars

\* C36: every line that starts with `error: ` makes stream_completion emit
\* exactly one error event and end the round, whatever its payload is: JSON
\* with a message, JSON with an empty message, or text that is not JSON.
C36_ErrorLineEndsRound ==
    [][(streamPc = "read" /\ stream # <<>> /\ Head(stream).prefix = "error: ") =>
          /\ Len(events') = Len(events) + 1
          /\ SubSeq(events', 1, Len(events)) = events
          /\ events'[Len(events')].type = "error"
          /\ finished'
          /\ streamPc' = "merge"]_vars

InFlight(task) == task.state \in {"scheduled", "request"}

\* C38: Chat._create_summary_task starts a new summarization task only when
\* none is in flight: at the end of a turn a task in flight stays the one
\* task of Chat, untouched, and a task is created only in place of none or
\* of a finished one, so two summarizations never overlap however fast the
\* turns follow each other.
C38_OneSummaryTask ==
    [][(chatPc = "done" /\ chatPc' = "idle") =>
          /\ InFlight(_summary_task) => _summary_task' = _summary_task
          /\ _summary_task' # _summary_task =>
                /\ ~InFlight(_summary_task)
                /\ _summary_task' = [NoSummaryTask EXCEPT !.state = "scheduled"]]_vars

\* The second turn has ended, and _create_summary_task has run, while the
\* task created after the first turn is still waiting for the service: its
\* slice is the two messages the history had then.
C38_Witness ==
    /\ chatRequests = 2 /\ chatPc = "idle"
    /\ max_history_turns = 0
    /\ Len(hm_messages) = 4
    /\ _last_summarized_index = -1 /\ hm_summary = <<>>
    /\ _summary_task.state = "request" /\ _summary_task.count = 2

====
